---- MODULE Spec2Model ----
(***************************************************************************)
(* Encrypted secret storage with a TTL cache in front of it                *)
(* (backend/core/secrets.py, backend/core/encrypted_secrets.py).           *)
(*                                                                         *)
(* Request-handling threads call _get_secret, _set_secret, _delete_secret  *)
(* and get_llm_api_key.  Every access to the shared cache and every        *)
(* database statement is one step, so that the steps of concurrent calls   *)
(* interleave as they do in the program.                                   *)
(***************************************************************************)
EXTENDS Naturals, Sequences, FiniteSets, TLC

\* ------------------------------------------------------------------ values
\* Python's None, and "the dict has no such key" of the cache.
None == "<None>"
NoEntry == "<NoEntry>"
\* Ghost: "nothing is promised about the value a get must return".
Unknown == "<Unknown>"

\* Python truthiness of an optional string: None and "" are falsy.
Truthy(s) == s # None /\ s # ""

\* ---------------------------------------------------------- input domains
Threads == {"w1", "w2"}
SeqThreads == {"w1"}
Orgs == {"o1"}
Teams == {"t1"}
TeamArgs == Teams \cup {None}
SUPPORTED_PROVIDERS == <<"openai", "anthropic", "google">>
ProviderInputs == {"openai"}
Values == {"", "k1", "k2"}
EnvValues == {None, "", "e1"}
MasterSecrets == {"", "m1"}
\* Operations started in one behaviour.
MaxOps == 3
\* Settings calls started in one behaviour.
MaxCalls == 3
\* The clock stops here (seconds), two TTLs after start-up.
MaxTime == 600
\* The steps of the clock (seconds).
TickSteps == {150, 300}

\* ------------------------------------------------------------------ paths
_get_secret_path(org_id, team_id) ==
    IF Truthy(team_id)
    THEN "/organizations/" \o org_id \o "/teams/" \o team_id
    ELSE "/organizations/" \o org_id

_get_cache_key(secret_name, path) == "secret:" \o path \o ":" \o secret_name

full_path(secret_name, path) == path \o "/" \o secret_name

api_key_name(provider) == provider \o "_api_key"

SecretNames == {api_key_name(p) : p \in ProviderInputs}
ScopePaths == {_get_secret_path(o, t) : o \in Orgs, t \in TeamArgs}
FullPaths == {full_path(n, p) : n \in SecretNames, p \in ScopePaths}
\* The cache keys of the API keys of every supported provider (the status
\* listing looks all of them up).
ApiKeyNames == {api_key_name(SUPPORTED_PROVIDERS[i]) : i \in 1..Len(SUPPORTED_PROVIDERS)}
CacheKeys == {_get_cache_key(n, p) : n \in ApiKeyNames, p \in ScopePaths}

\* ----------------------------------------------------------------- cipher
\* PBKDF2 over the master secret with a fixed salt: a function of the secret.
derive_key(secret_key) == "pbkdf2:" \o secret_key

\* A Fernet token: the key it was sealed under, the plaintext it seals and
\* whether its HMAC is intact.
Token(key, plaintext) == [key |-> key, pt |-> plaintext, mac |-> TRUE]

\* Mutant of encrypt_value: the stored token is cut short and no longer verifies.
encrypt_value_truncated(fernet, plaintext) == [key |-> fernet, pt |-> plaintext, mac |-> FALSE]

encrypt_value(fernet, plaintext) == Token(fernet, plaintext)

\* Mutant of decrypt_value: the token is decoded without verifying it.
decrypt_value_unverified(fernet, encrypted) == encrypted.pt

\* fernet.decrypt: the plaintext, or InvalidToken when the HMAC does not
\* verify under this key.
InvalidToken == "<InvalidToken>"
decrypt_value(fernet, encrypted) ==
    IF encrypted.key = fernet /\ encrypted.mac THEN encrypted.pt ELSE InvalidToken

\* ------------------------------------------------------------------ state
VARIABLES
    SECRET_KEY,   \* settings.SECRET_KEY ("" when not configured)
    env,          \* settings.<PROVIDER>_API_KEY, by provider
    fernet,       \* the module-level _fernet: None, or the derived key it holds
    store,        \* the encrypted_secrets table: a set of rows
    nextId,       \* the primary key the next inserted row gets
    cache,        \* secrets_cache: cache key -> cached plaintext, or NoEntry
    th,           \* each thread's call in progress: its position and locals
    hist,         \* ghost: the last two calls that returned, oldest first
    pre,          \* ghost: table and cache when the latest call started
    settled,      \* ghost: per full path, the value the last finished write left
    nops,         \* ghost: calls started so far
    fc,           \* each thread's get_fernet call in progress, and what its last one returned
    fernet_obj,   \* ghost: which Fernet object _fernet refers to (0 for None)
    kdf_calls,    \* ghost: key derivations made so far
    now,          \* the clock, in seconds since start-up
    expires_at,   \* secrets_cache: cache key -> expires_at of its entry (0 without entry)
    organization_llm_settings,  \* the organization_llm_settings table: a set of rows
    team_llm_settings,          \* the team_llm_settings table
    user_llm_settings,          \* the user_llm_settings table
    custom_llm_provider,        \* the custom_llm_provider table
    llm_next_id,  \* the primary key the next inserted settings row gets
    rq,           \* each request thread's settings call: position, locals, request cache
    ehist,        \* ghost: the last two settings calls that returned, oldest first
    ncalls        \* ghost: settings calls started so far

\* The state of the secret storage and the state of the LLM settings.
cipher_vars == <<fc, fernet_obj, kdf_calls>>
clock_vars == <<now, expires_at>>
secret_vars == <<SECRET_KEY, env, fernet, store, nextId, cache, th, hist, pre, settled, nops,
                 fc, fernet_obj, kdf_calls, now, expires_at>>
llm_vars == <<organization_llm_settings, team_llm_settings, user_llm_settings,
              custom_llm_provider, llm_next_id, rq, ehist, ncalls>>

vars == <<SECRET_KEY, env, fernet, store, nextId, cache, th, hist, pre, settled, nops,
          fc, fernet_obj, kdf_calls, now, expires_at,
          organization_llm_settings, team_llm_settings, user_llm_settings,
          custom_llm_provider, llm_next_id, rq, ehist, ncalls>>

Row(id, path, encrypted_value) == [id |-> id, path |-> path, encrypted_value |-> encrypted_value]

\* select(EncryptedSecret).where(path == full_path): the matching rows;
\* .first() is the row of this set, or None when it is empty.
SelectByPath(table, fp) == {r \in table : r.path = fp}

\* A thread that is not inside a call.
IdleTh ==
    [pc |-> "idle", op |-> None, secret_name |-> None, path |-> None,
     value |-> None, provider |-> None, org_id |-> None, team_id |-> None,
     phase |-> None, existing |-> {}, ret |-> None, ok |-> FALSE,
     raised |-> FALSE, failed |-> FALSE, cfgerr |-> FALSE, conflict |-> FALSE,
     bad |-> FALSE, hit |-> FALSE, wrote |-> FALSE, evict |-> "none",
     expect |-> Unknown, clean |-> TRUE, after_absent |-> FALSE,
     cached0 |-> NoEntry, todo |-> <<>>, entries |-> <<>>]

\* A thread that is not inside get_fernet; ret is the object its last call
\* returned (0: none yet), after_init whether that call started with _fernet
\* set, derived whether it derived a key.
IdleFc == [pc |-> "idle", ret |-> 0, raised |-> FALSE, after_init |-> FALSE, derived |-> FALSE]

ThFullPath(r) == full_path(r.secret_name, r.path)
ThCacheKey(r) == _get_cache_key(r.secret_name, r.path)

IsWrite(r) == r.op \in {"set", "delete"}
Running(t) == th[t].pc # "idle"

\* ============================================================ LLM settings
\* Hierarchical LLM settings (backend/llm_settings/models.py, service.py):
\* one settings row per organization, team and user, created on first access,
\* and get_effective_llm_settings, which layers them.  Floats and token
\* counts are opaque values here and are written as strings.
Users == {"u1"}

DEFAULT_PROVIDER == "anthropic"
DEFAULT_MODEL == "claude-sonnet-4-20250514"
DEFAULT_TEMPERATURE == "0.7"
DEFAULT_TOP_P == "1.0"

\* The ids of the built-in model catalog, by provider, in catalog order.
BUILT_IN_MODELS ==
    [anthropic |-> <<"claude-sonnet-4-20250514", "claude-haiku-4-5-20251001",
                     "claude-opus-4-20250514">>,
     openai |-> <<"gpt-4o", "gpt-4o-mini", "o3-mini", "o1">>,
     google |-> <<"gemini-2.0-flash", "gemini-2.5-pro", "gemini-2.5-flash">>]

\* The elements of a list.
Elems(list) == {list[i] : i \in 1..Len(list)}

\* dict.get(key, default) on a JSON object.
dict_get(d, key, default) == IF key \in DOMAIN d THEN d[key] ELSE default

\* select(...).where(<column> == value): the matching rows; .first() is the
\* row of this set, or None when it is empty.
SelectWhere(table, column, value) == {r \in table : r[column] = value}

\* OrganizationLLMSettings(...) as get_or_create_org_llm_settings builds it.
default_org_settings(id, organization_id) ==
    [id |-> id, organization_id |-> organization_id,
     default_provider |-> DEFAULT_PROVIDER, default_model |-> DEFAULT_MODEL,
     default_temperature |-> DEFAULT_TEMPERATURE, default_max_tokens |-> None,
     default_top_p |-> DEFAULT_TOP_P,
     fallback_enabled |-> FALSE, fallback_models |-> <<>>,
     allow_team_customization |-> TRUE, allow_user_customization |-> TRUE,
     allow_per_request_model_selection |-> TRUE,
     enabled_providers |-> <<"anthropic", "openai", "google">>,
     disabled_models |-> <<>>]

\* TeamLLMSettings(...) as get_or_create_team_llm_settings builds it.
default_team_settings(id, team_id) ==
    [id |-> id, team_id |-> team_id,
     default_provider |-> None, default_model |-> None,
     default_temperature |-> None, default_max_tokens |-> None,
     allow_user_customization |-> TRUE, disabled_models |-> <<>>]

\* UserLLMSettings(...) as get_or_create_user_llm_settings builds it.
default_user_settings(id, user_id) ==
    [id |-> id, user_id |-> user_id,
     preferred_provider |-> None, preferred_model |-> None,
     preferred_temperature |-> None]

\* A CustomLLMProvider row; create_custom_provider stores is_enabled = True.
CustomProviderRow(id, organization_id, team_id, available_models, is_enabled) ==
    [id |-> id, organization_id |-> organization_id, team_id |-> team_id,
     available_models |-> available_models, is_enabled |-> is_enabled]

\* str() of an optional id inside an f-string.
Str(x) == IF x = None THEN "None" ELSE x

\* Mutant of _llm_settings_cache_key: the team is left out of the key.
_llm_settings_cache_key_no_team(user_id, organization_id, team_id) ==
    "llm_settings:" \o Str(organization_id) \o ":" \o Str(user_id)

_llm_settings_cache_key(user_id, organization_id, team_id) ==
    "llm_settings:" \o Str(organization_id) \o ":" \o Str(team_id) \o ":" \o Str(user_id)

LLMCacheKeys ==
    {_llm_settings_cache_key(u, o, t) : u \in Users, o \in Orgs, t \in TeamArgs}
        \cup {_llm_settings_cache_key_no_team(u, o, t) : u \in Users, o \in Orgs, t \in TeamArgs}

\* The arguments of get_effective_llm_settings.
EffectiveArgs == Users \X Orgs \X TeamArgs

\* A request thread that is not inside a settings call, with the request
\* cache rc; seen is a ghost: by arguments, the results that the
\* get_effective_llm_settings calls of this request with them computed.
IdleRq(rc, seen) ==
    [pc |-> "idle", op |-> None, user_id |-> None, organization_id |-> None,
     team_id |-> None, data |-> [f \in {} |-> None],
     org_settings |-> {}, team_settings |-> {}, user_settings |-> {},
     available_models |-> <<>>, result |-> {},
     raised |-> FALSE, hit |-> FALSE, repeat |-> FALSE, created |-> {},
     provider_override |-> None, model_override |-> None,
     temperature_override |-> None, max_tokens_override |-> None,
     chosen |-> <<>>, used |-> <<>>,
     request_cache |-> rc, seen |-> seen]

EmptyRequestCache == [k \in LLMCacheKeys |-> {}]
NothingSeen == [a \in EffectiveArgs |-> {}]

\* No settings row exists and no settings call has been made.
LLMIdle ==
    /\ organization_llm_settings = {}
    /\ team_llm_settings = {}
    /\ user_llm_settings = {}
    /\ custom_llm_provider = {}
    /\ llm_next_id = 1
    /\ rq = [t \in Threads |-> IdleRq(EmptyRequestCache, NothingSeen)]
    /\ ehist = <<>>
    /\ ncalls = 0

\* ------------------------------------------------- list_custom_providers
\* The rows the query of list_custom_providers matches: the organization's
\* enabled providers and, when a team is given, only the organization-level
\* ones and that team's.
list_custom_providers(table, organization_id, team_id) ==
    {r \in table :
        /\ r.organization_id = organization_id
        /\ r.is_enabled
        /\ Truthy(team_id) => (r.team_id = None \/ r.team_id = team_id)}

\* The orders in which a query without ORDER BY may return a set of rows.
Lists(rows) ==
    {l \in [1..Cardinality(rows) -> rows] : \A r \in rows : \E i \in DOMAIN l : l[i] = r}

\* -------------------------------------------------- get_available_models
ModelInfo(id, provider, is_custom, custom_provider_id) ==
    [id |-> id, provider |-> provider, is_custom |-> is_custom,
     custom_provider_id |-> custom_provider_id]

\* Mutant of disabled_model_ids: the team's list is left out.
disabled_model_ids_org_only(org_settings, team_settings) ==
    Elems(org_settings.disabled_models)

\* The disabled ids: the organization's list and the team's, when a team row
\* is loaded.
disabled_model_ids(org_settings, team_settings) ==
    Elems(org_settings.disabled_models)
        \cup UNION {Elems(ts.disabled_models) : ts \in team_settings}

\* The built-in models of one enabled provider that are not disabled.
built_in_models_of(provider, disabled_models) ==
    IF provider \in DOMAIN BUILT_IN_MODELS
    THEN LET ids == SelectSeq(BUILT_IN_MODELS[provider], LAMBDA m : m \notin disabled_models)
         IN [i \in 1..Len(ids) |-> ModelInfo(ids[i], provider, FALSE, {})]
    ELSE <<>>

\* The models of one custom provider that have an id and are not disabled.
custom_models_of(custom_prov, disabled_models) ==
    LET entries == SelectSeq(custom_prov.available_models,
                             LAMBDA model_data :
                                 /\ dict_get(model_data, "id", "") # ""
                                 /\ dict_get(model_data, "id", "") \notin disabled_models)
    IN [i \in 1..Len(entries) |-> ModelInfo(entries[i].id, "custom", TRUE, {custom_prov.id})]

RECURSIVE built_in_models(_, _)
built_in_models(enabled_providers, disabled_models) ==
    IF enabled_providers = <<>> THEN <<>>
    ELSE built_in_models_of(Head(enabled_providers), disabled_models)
            \o built_in_models(Tail(enabled_providers), disabled_models)

RECURSIVE custom_models(_, _)
custom_models(custom_providers, disabled_models) ==
    IF custom_providers = <<>> THEN <<>>
    ELSE custom_models_of(Head(custom_providers), disabled_models)
            \o custom_models(Tail(custom_providers), disabled_models)

\* get_available_models, given the rows it loads and the list its
\* list_custom_providers query returned.
get_available_models(org_settings, team_settings, custom_providers) ==
    LET disabled_models == disabled_model_ids(org_settings, team_settings)
    IN built_in_models(org_settings.enabled_providers, disabled_models)
          \o custom_models(custom_providers, disabled_models)

\* ------------------------------------------- get_effective_llm_settings
\* "Start with org defaults".
org_defaults(org_settings) ==
    [provider |-> org_settings.default_provider,
     model |-> org_settings.default_model,
     temperature |-> org_settings.default_temperature,
     max_tokens |-> org_settings.default_max_tokens,
     top_p |-> org_settings.default_top_p,
     settings_source |-> "org"]

\* Mutant of team_overrides_allowed: the organization's flag is not consulted.
team_overrides_unchecked(org_settings, team_settings) == team_settings # {}

\* "if team_settings and org_settings.allow_team_customization".
team_overrides_allowed(org_settings, team_settings) ==
    team_settings # {} /\ org_settings.allow_team_customization

\* Mutant of apply_team_overrides: a temperature or max_tokens override moves
\* settings_source too.
apply_team_overrides_tags_parameters(run, ts) ==
    [provider |-> IF ts.default_provider # None THEN ts.default_provider ELSE run.provider,
     model |-> IF ts.default_model # None THEN ts.default_model ELSE run.model,
     temperature |-> IF ts.default_temperature # None THEN ts.default_temperature
                     ELSE run.temperature,
     max_tokens |-> IF ts.default_max_tokens # None THEN ts.default_max_tokens
                    ELSE run.max_tokens,
     top_p |-> run.top_p,
     settings_source |-> IF \/ ts.default_provider # None \/ ts.default_model # None
                            \/ ts.default_temperature # None \/ ts.default_max_tokens # None
                         THEN "team" ELSE run.settings_source]

\* Mutant of apply_team_overrides: the team's temperature replaces the
\* running value even when it is None.
apply_team_overrides_all(run, ts) ==
    [provider |-> IF ts.default_provider # None THEN ts.default_provider ELSE run.provider,
     model |-> IF ts.default_model # None THEN ts.default_model ELSE run.model,
     temperature |-> ts.default_temperature,
     max_tokens |-> IF ts.default_max_tokens # None THEN ts.default_max_tokens
                    ELSE run.max_tokens,
     top_p |-> run.top_p,
     settings_source |-> IF ts.default_provider # None \/ ts.default_model # None
                         THEN "team" ELSE run.settings_source]

\* The team overrides: each field that is not None replaces the running value.
apply_team_overrides(run, ts) ==
    [provider |-> IF ts.default_provider # None THEN ts.default_provider ELSE run.provider,
     model |-> IF ts.default_model # None THEN ts.default_model ELSE run.model,
     temperature |-> IF ts.default_temperature # None THEN ts.default_temperature
                     ELSE run.temperature,
     max_tokens |-> IF ts.default_max_tokens # None THEN ts.default_max_tokens
                    ELSE run.max_tokens,
     top_p |-> run.top_p,
     settings_source |-> IF ts.default_provider # None \/ ts.default_model # None
                         THEN "team" ELSE run.settings_source]

\* user_can_customize: the organization's flag and, inside the branch that
\* applies the team overrides, the team's.
user_can_customize(org_settings, team_settings) ==
    IF team_overrides_allowed(org_settings, team_settings)
    THEN org_settings.allow_user_customization
            /\ \A ts \in team_settings : ts.allow_user_customization
    ELSE org_settings.allow_user_customization

\* Mutant of apply_user_preferences: the preferred model is not applied.
apply_user_preferences_no_model(run, us) ==
    [provider |-> IF us.preferred_provider # None THEN us.preferred_provider ELSE run.provider,
     model |-> run.model,
     temperature |-> IF us.preferred_temperature # None THEN us.preferred_temperature
                     ELSE run.temperature,
     max_tokens |-> run.max_tokens,
     top_p |-> run.top_p,
     settings_source |-> IF us.preferred_provider # None \/ us.preferred_model # None
                         THEN "user" ELSE run.settings_source]

\* The user preferences: each field that is not None replaces the running value.
apply_user_preferences(run, us) ==
    [provider |-> IF us.preferred_provider # None THEN us.preferred_provider ELSE run.provider,
     model |-> IF us.preferred_model # None THEN us.preferred_model ELSE run.model,
     temperature |-> IF us.preferred_temperature # None THEN us.preferred_temperature
                     ELSE run.temperature,
     max_tokens |-> run.max_tokens,
     top_p |-> run.top_p,
     settings_source |-> IF us.preferred_provider # None \/ us.preferred_model # None
                         THEN "user" ELSE run.settings_source]

\* Mutant of can_change_parameters: the flag is left at its initial True.
can_change_parameters_unset(org_settings, team_settings) == TRUE

\* can_change_model and can_change_parameters: True, set to False in the
\* else branch of "if user_can_customize".
can_change_model(org_settings, team_settings) == user_can_customize(org_settings, team_settings)
can_change_parameters(org_settings, team_settings) ==
    user_can_customize(org_settings, team_settings)

\* The hierarchy of get_effective_llm_settings on the rows it loaded.
resolve_hierarchy(org, team_settings, us) ==
    LET seeded == org_defaults(org)
        teamed == IF team_overrides_allowed(org, team_settings)
                  THEN apply_team_overrides(seeded, CHOOSE ts \in team_settings : TRUE)
                  ELSE seeded
    IN IF user_can_customize(org, team_settings)
       THEN apply_user_preferences(teamed, us)
       ELSE teamed

\* available_providers: the enabled list, with "custom" appended when the
\* second list_custom_providers query returned rows.
available_providers_of(org, custom_providers) ==
    IF custom_providers # {} /\ "custom" \notin Elems(org.enabled_providers)
    THEN Append(org.enabled_providers, "custom")
    ELSE org.enabled_providers

\* EffectiveLLMSettings(...) as get_effective_llm_settings returns it.
EffectiveLLMSettings(org, team_settings, us, available_models, custom_providers) ==
    LET run == resolve_hierarchy(org, team_settings, us)
    IN [provider |-> run.provider,
        model |-> run.model,
        temperature |-> run.temperature,
        max_tokens |-> run.max_tokens,
        top_p |-> run.top_p,
        fallback_enabled |-> org.fallback_enabled,
        fallback_models |-> org.fallback_models,
        available_providers |-> available_providers_of(org, custom_providers),
        available_models |-> available_models,
        can_change_model |-> can_change_model(org, team_settings),
        can_change_parameters |-> can_change_parameters(org, team_settings),
        per_request_selection_allowed |-> org.allow_per_request_model_selection,
        settings_source |-> run.settings_source]

\* ------------------------------------------------------ get_model_for_chat
\* get_model_for_chat with a user: the effective provider, model, temperature
\* and max_tokens, each replaced by its override when per-request selection
\* is allowed and the override is not None.
get_model_for_chat(effective, model_override, provider_override, temperature_override) ==
    LET allowed == effective.per_request_selection_allowed
    IN [provider |-> IF allowed /\ provider_override # None
                     THEN provider_override ELSE effective.provider,
        model |-> IF allowed /\ model_override # None
                  THEN model_override ELSE effective.model,
        temperature |-> IF allowed /\ temperature_override # None
                        THEN temperature_override ELSE effective.temperature,
        max_tokens |-> effective.max_tokens]

\* The values get_chat_model_with_context builds the chat model with, from
\* its arguments and the tuple get_model_for_chat resolved: "provider or
\* resolved_provider", "model or resolved_model", and the temperature and
\* max_tokens arguments when they are not None.
chat_model_settings(resolved, provider, model, temperature, max_tokens) ==
    [provider |-> IF Truthy(provider) THEN provider ELSE resolved.provider,
     model |-> IF Truthy(model) THEN model ELSE resolved.model,
     temperature |-> IF temperature # None THEN temperature ELSE resolved.temperature,
     max_tokens |-> IF max_tokens # None THEN max_tokens ELSE resolved.max_tokens]

\* What the call r returns once get_effective_llm_settings gave it result:
\* get_chat_model_with_context goes on with get_model_for_chat and its own
\* choice of values.
WithChatSettings(r) ==
    IF r.op # "chat" THEN r
    ELSE LET effective == CHOOSE x \in r.result : TRUE
             resolved == get_model_for_chat(effective, r.model_override, r.provider_override,
                                            r.temperature_override)
         IN [r EXCEPT !.chosen = resolved,
                      !.used = chat_model_settings(resolved, r.provider_override,
                                                   r.model_override, r.temperature_override,
                                                   r.max_tokens_override)]

\* ================================================================ secrets
\* Rows left in the table by earlier processes: sealed under the current
\* master secret, under a previous one, or with a damaged token.
LegacyTokens ==
    {Token(derive_key("m1"), "k1"),
     Token(derive_key("m0"), "k1"),
     [key |-> derive_key("m1"), pt |-> "k1", mac |-> FALSE]}

InitTables ==
    {{}} \cup {{Row(0, fp, tok)} : fp \in FullPaths, tok \in LegacyTokens}

\* The secret storage after start-up.
SecretsInit ==
    /\ SECRET_KEY \in MasterSecrets
    /\ env \in [{SUPPORTED_PROVIDERS[i] : i \in 1..Len(SUPPORTED_PROVIDERS)} -> EnvValues]
    /\ \A p \in DOMAIN env : p \notin ProviderInputs => env[p] = None
    /\ fernet = None
    /\ store \in InitTables
    /\ nextId = 1
    /\ cache = [k \in CacheKeys |-> NoEntry]
    /\ th = [t \in Threads |-> IdleTh]
    /\ hist = <<>>
    /\ pre = [store |-> store, cache |-> cache]
    /\ settled = [fp \in FullPaths |-> Unknown]
    /\ nops = 0
    /\ fc = [t \in Threads |-> IdleFc]
    /\ fernet_obj = 0
    /\ kdf_calls = 0
    /\ now = 0
    /\ expires_at = [k \in CacheKeys |-> 0]

Init == SecretsInit /\ LLMIdle

\* ------------------------------------------------------------ secrets_cache
\* Cache TTL for secrets (5 minutes).
SECRETS_CACHE_TTL_SECONDS == 300

\* An entry is expired after its expires_at; at expires_at itself either
\* answer can come (late tells which).
Expired(key, late) == now > expires_at[key] \/ (late /\ now = expires_at[key])
Lateness(key) == IF cache[key] # NoEntry /\ now = expires_at[key] THEN BOOLEAN ELSE {FALSE}

\* TTLCache.get: the live value under the key, or None.
TTLCache_get(c, key, late) ==
    IF c[key] = NoEntry \/ Expired(key, late) THEN None ELSE c[key]
\* TTLCache.set and TTLCache.delete.
TTLCache_set(c, key, value) == [c EXCEPT ![key] = value]
TTLCache_delete(c, key) == [c EXCEPT ![key] = NoEntry]
\* The expiry times after TTLCache.set with a TTL, and after TTLCache.delete.
expires_set(e, key, ttl_seconds) == [e EXCEPT ![key] = now + ttl_seconds]
expires_delete(e, key) == [e EXCEPT ![key] = 0]

\* ------------------------------------------------------------------ cipher
\* get_fernet: the cached instance, else one derived from SECRET_KEY;
\* ValueError when SECRET_KEY is not set (nothing is cached then).
get_fernet ==
    IF fernet # None THEN [raised |-> FALSE, fernet |-> fernet]
    ELSE IF SECRET_KEY = "" THEN [raised |-> TRUE, fernet |-> None]
    ELSE [raised |-> FALSE, fernet |-> derive_key(SECRET_KEY)]

\* Ghost: a get_fernet call that finds _fernet unset and SECRET_KEY set
\* derives the key and stores a new Fernet object.
Derivation(f) ==
    IF fernet = None /\ ~f.raised
    THEN kdf_calls' = kdf_calls + 1 /\ fernet_obj' = kdf_calls + 1
    ELSE UNCHANGED <<fernet_obj, kdf_calls>>

\* ------------------------------------------------------- exception handlers
\* Mutant of secrets_set_failed: the handler re-raises.
secrets_set_reraised == [raised |-> TRUE, ok |-> FALSE]

\* "except Exception" of _get_secret, _set_secret and _delete_secret: the
\* error is logged and the call returns None / False.
secrets_get_failed == [raised |-> FALSE, ret |-> None]
secrets_set_failed == [raised |-> FALSE, ok |-> FALSE]
secrets_delete_failed == [raised |-> FALSE, ok |-> FALSE]

\* Mutant of delete_missing_ok: a missing row is reported as a failure.
delete_missing_fails == FALSE

\* Mutant of _get_env_fallback: the environment is never consulted.
_get_env_fallback_none(provider) == None

\* _delete_secret when the SELECT finds no row: "that's okay", return True.
delete_missing_ok == TRUE

\* _get_env_fallback: mapping.get(provider).
_get_env_fallback(provider) == IF provider \in DOMAIN env THEN env[provider] ELSE None

\* ------------------------------------------------------------ call and return
\* hist keeps the last two calls that returned.
Push(h, r) == IF Len(h) < 2 THEN Append(h, r) ELSE Append(Tail(h), r)

\* The call that returned last, and the one before it.
Last == hist[Len(hist)]
Prev == hist[Len(hist) - 1]

\* Ghost: the call that returned last was a get of this secret that found no
\* row and returned None.
AfterAbsent(n, p) ==
    /\ Len(hist) > 0
    /\ Last.op = "get" /\ Last.secret_name = n /\ Last.path = p
    /\ Last.ret = None /\ ~Last.failed /\ ~Last.cfgerr /\ ~Last.bad

OtherWriter(t, fp) ==
    \E u \in Threads \ {t} : Running(u) /\ IsWrite(th[u]) /\ ThFullPath(th[u]) = fp

\* Thread t enters a call with the locals r.
Begin(t, r) ==
    /\ th[t].pc = "idle"
    /\ nops < MaxOps
    /\ nops' = nops + 1
    /\ pre' = [store |-> store, cache |-> cache]
    /\ th' = [u \in Threads |->
                IF u = t THEN [r EXCEPT !.cached0 = cache[ThCacheKey(r)]]
                ELSE IF IsWrite(r) /\ Running(u) /\ ThFullPath(th[u]) = ThFullPath(r)
                     THEN [th[u] EXCEPT !.expect = Unknown, !.clean = FALSE]
                     ELSE th[u]]
    /\ settled' = IF IsWrite(r) THEN [settled EXCEPT ![ThFullPath(r)] = Unknown] ELSE settled
    /\ UNCHANGED <<SECRET_KEY, env, fernet, store, nextId, cache, hist>>
    /\ UNCHANGED llm_vars
    /\ UNCHANGED cipher_vars
    /\ UNCHANGED clock_vars

\* Thread t's call returns to the request handler with the record r.
Return(t, r) ==
    /\ hist' = Push(hist, [r EXCEPT !.pc = "returned", !.existing = {}])
    /\ th' = [th EXCEPT ![t] = IdleTh]
    /\ settled' =
         IF IsWrite(r)
         THEN [settled EXCEPT ![ThFullPath(r)] =
                 IF r.ok /\ r.clean /\ ~OtherWriter(t, ThFullPath(r))
                 THEN (IF r.op = "set" THEN r.value ELSE None)
                 ELSE Unknown]
         ELSE settled

\* ---------------------------------------------------- check_api_key_status
StatusOps == {"list_status"}

\* The result dict check_api_key_status starts from.
NewStatus(provider) ==
    [provider |-> provider, is_configured |-> FALSE, level |-> None,
     has_team_override |-> FALSE, has_org_key |-> FALSE, has_env_fallback |-> FALSE]

\* "if self._get_secret(secret_name, team_path)": the team level.
team_checked(result, key) ==
    IF Truthy(key)
    THEN [result EXCEPT !.has_team_override = TRUE, !.is_configured = TRUE, !.level = "team"]
    ELSE result

\* Mutant of org_checked: an organization key always sets the level.
org_checked_sets_level(result, key) ==
    IF Truthy(key)
    THEN [result EXCEPT !.has_org_key = TRUE, !.is_configured = TRUE, !.level = "org"]
    ELSE result

\* "if self._get_secret(secret_name, org_path)": the organization level.
org_checked(result, key) ==
    IF Truthy(key)
    THEN [result EXCEPT !.has_org_key = TRUE, !.is_configured = TRUE,
                        !.level = IF result.is_configured THEN @ ELSE "org"]
    ELSE result

\* Mutant of env_checked: an empty environment setting counts as a key.
env_checked_not_none(result, env_key) ==
    IF env_key # None
    THEN [result EXCEPT !.has_env_fallback = TRUE, !.is_configured = TRUE,
                        !.level = IF result.is_configured THEN @ ELSE "environment"]
    ELSE result

\* "if self._get_env_fallback(provider)": the environment level.
env_checked(result, env_key) ==
    IF Truthy(env_key)
    THEN [result EXCEPT !.has_env_fallback = TRUE, !.is_configured = TRUE,
                        !.level = IF result.is_configured THEN @ ELSE "environment"]
    ELSE result

\* The locals of list_api_key_status when check_api_key_status(provider,
\* org_id, team_id) reaches its first _get_secret.
StatusLookup(r, provider) ==
    [r EXCEPT !.pc = "get_cache", !.existing = {}, !.provider = provider,
              !.secret_name = api_key_name(provider),
              !.phase = IF Truthy(r.team_id) THEN "team" ELSE "org",
              !.path = IF Truthy(r.team_id) THEN _get_secret_path(r.org_id, r.team_id)
                       ELSE _get_secret_path(r.org_id, None),
              !.entries = Append(r.entries, NewStatus(provider))]

\* _get_secret hands v back to check_api_key_status: after the team level
\* comes the organization level, then the environment; list_api_key_status
\* goes on with the next provider.
StatusReturn(t, r, v) ==
    LET n == Len(r.entries)
    IN IF r.phase = "team"
       THEN /\ th' = [th EXCEPT ![t] =
                        [r EXCEPT !.entries[n] = team_checked(r.entries[n], v),
                                  !.phase = "org", !.pc = "get_cache", !.existing = {},
                                  !.path = _get_secret_path(r.org_id, None)]]
            /\ UNCHANGED <<hist, settled>>
       ELSE LET result == env_checked(org_checked(r.entries[n], v),
                                      _get_env_fallback(r.provider))
                done == [r EXCEPT !.entries[n] = result]
            IN IF r.todo = <<>>
               THEN Return(t, done)
               ELSE /\ th' = [th EXCEPT ![t] =
                                StatusLookup([done EXCEPT !.todo = Tail(r.todo)],
                                             Head(r.todo))]
                    /\ UNCHANGED <<hist, settled>>

\* Mutant of key_found: only None counts as no key.
key_found_not_none(key) == key # None

\* "if key:" in get_llm_api_key: None and the empty string are no key.
key_found(key) == Truthy(key)

\* _get_secret hands v back: to the request handler, to a status call, or to
\* get_llm_api_key, which returns a truthy key, else goes on to the org
\* level, else to the environment.
GetReturn(t, r, v) ==
    IF r.op = "get" \/ r.raised THEN Return(t, [r EXCEPT !.ret = v])
    ELSE IF r.op \in StatusOps THEN StatusReturn(t, r, v)
    ELSE IF key_found(v) THEN Return(t, [r EXCEPT !.ret = v])
    ELSE IF r.phase = "team"
         THEN /\ th' = [th EXCEPT ![t] =
                          [r EXCEPT !.phase = "org", !.pc = "get_cache", !.existing = {},
                                    !.path = _get_secret_path(r.org_id, None)]]
              /\ UNCHANGED <<hist, settled>>
         ELSE Return(t, [r EXCEPT !.ret = _get_env_fallback(r.provider)])

\* ------------------------------------------------------------------ calls
StartGet(t) ==
    \E n \in SecretNames, p \in ScopePaths :
        Begin(t, [IdleTh EXCEPT !.pc = "get_cache", !.op = "get", !.secret_name = n,
                                !.path = p, !.expect = settled[full_path(n, p)]])

\* set_llm_api_key(provider, api_key, org_id, team_id) up to _set_secret.
StartSet(t) ==
    \E provider \in ProviderInputs, org \in Orgs, team \in TeamArgs, v \in Values :
        LET n == api_key_name(provider)
            p == _get_secret_path(org, team)
        IN Begin(t, [IdleTh EXCEPT !.pc = "set_evict", !.op = "set", !.secret_name = n,
                                   !.path = p, !.value = v,
                                   !.provider = provider, !.org_id = org, !.team_id = team,
                                   !.after_absent = AfterAbsent(n, p),
                                   !.clean = ~OtherWriter(t, full_path(n, p))])

\* delete_llm_api_key(provider, org_id, team_id) up to _delete_secret.
StartDelete(t) ==
    \E provider \in ProviderInputs, org \in Orgs, team \in TeamArgs :
        LET n == api_key_name(provider)
            p == _get_secret_path(org, team)
        IN Begin(t, [IdleTh EXCEPT !.pc = "del_evict", !.op = "delete", !.secret_name = n,
                                   !.path = p,
                                   !.provider = provider, !.org_id = org, !.team_id = team,
                                   !.clean = ~OtherWriter(t, full_path(n, p))])

\* Mutant of StartResolve: the team level is skipped.
StartResolve_OrgOnly(t) ==
    \E provider \in ProviderInputs, org \in Orgs, team \in TeamArgs :
        Begin(t, [IdleTh EXCEPT !.pc = "get_cache", !.op = "resolve",
                                !.provider = provider, !.org_id = org, !.team_id = team,
                                !.secret_name = api_key_name(provider),
                                !.phase = "org",
                                !.path = _get_secret_path(org, None)])

\* get_llm_api_key(provider, org_id, team_id) up to its first _get_secret.
StartResolve(t) ==
    \E provider \in ProviderInputs, org \in Orgs, team \in TeamArgs :
        Begin(t, [IdleTh EXCEPT !.pc = "get_cache", !.op = "resolve",
                                !.provider = provider, !.org_id = org, !.team_id = team,
                                !.secret_name = api_key_name(provider),
                                !.phase = IF Truthy(team) THEN "team" ELSE "org",
                                !.path = IF Truthy(team) THEN _get_secret_path(org, team)
                                         ELSE _get_secret_path(org, None)])

\* list_api_key_status(org_id, team_id): check_api_key_status for each
\* supported provider in turn.
StartListStatus(t) ==
    \E org \in Orgs, team \in TeamArgs :
        Begin(t, StatusLookup([IdleTh EXCEPT !.op = "list_status", !.org_id = org,
                                             !.team_id = team,
                                             !.todo = Tail(SUPPORTED_PROVIDERS)],
                              Head(SUPPORTED_PROVIDERS)))

\* ------------------------------------------------------------- _get_secret
\* The cache lookup: a hit returns the cached value.
GetCache(t) ==
    /\ th[t].pc = "get_cache"
    /\ \E late \in Lateness(ThCacheKey(th[t])) :
         LET r == th[t]
             cached_value == TTLCache_get(cache, ThCacheKey(r), late)
         IN IF cached_value # None
            THEN /\ GetReturn(t, [r EXCEPT !.hit = TRUE], cached_value)
                 /\ UNCHANGED <<cache, expires_at>>
            ELSE \* an expired entry is removed by the lookup
                 /\ cache' = TTLCache_delete(cache, ThCacheKey(r))
                 /\ expires_at' = expires_delete(expires_at, ThCacheKey(r))
                 /\ th' = [th EXCEPT ![t].pc = "get_select"]
                 /\ UNCHANGED <<hist, settled>>
    /\ UNCHANGED <<SECRET_KEY, env, fernet, store, nextId, pre, nops>>
    /\ UNCHANGED llm_vars
    /\ UNCHANGED cipher_vars
    /\ UNCHANGED now

\* Mutant of GetSelect: a missing row is cached as None.
GetSelect_CachesNone(t) ==
    /\ th[t].pc = "get_select"
    /\ LET r == th[t]
           rows == SelectByPath(store, ThFullPath(r))
       IN \/ /\ GetReturn(t, [r EXCEPT !.failed = TRUE], None)
             /\ UNCHANGED <<cache, expires_at>>
          \/ /\ rows = {}
             /\ cache' = TTLCache_set(cache, ThCacheKey(r), None)
             /\ expires_at' = expires_set(expires_at, ThCacheKey(r), SECRETS_CACHE_TTL_SECONDS)
             /\ GetReturn(t, r, None)
          \/ /\ rows # {}
             /\ th' = [th EXCEPT ![t].pc = "get_decrypt", ![t].existing = rows]
             /\ UNCHANGED <<hist, settled, cache, expires_at>>
    /\ UNCHANGED <<SECRET_KEY, env, fernet, store, nextId, pre, nops>>
    /\ UNCHANGED llm_vars
    /\ UNCHANGED cipher_vars
    /\ UNCHANGED now

\* The SELECT: no row returns None; the connection may fail.
GetSelect(t) ==
    /\ th[t].pc = "get_select"
    /\ LET r == th[t]
           rows == SelectByPath(store, ThFullPath(r))
       IN \/ GetReturn(t, [r EXCEPT !.failed = TRUE, !.raised = secrets_get_failed.raised],
                       secrets_get_failed.ret)
          \/ /\ rows = {}
             /\ GetReturn(t, r, None)
          \/ /\ rows # {}
             /\ th' = [th EXCEPT ![t].pc = "get_decrypt", ![t].existing = rows]
             /\ UNCHANGED <<hist, settled>>
    /\ UNCHANGED <<SECRET_KEY, env, fernet, store, nextId, cache, pre, nops>>
    /\ UNCHANGED llm_vars
    /\ UNCHANGED cipher_vars
    /\ UNCHANGED clock_vars

\* Mutant of secrets_cache_set: the decrypted value is not cached.
secrets_cache_set_skipped(cache_key, decrypted_value) ==
    UNCHANGED <<cache, expires_at>>

\* secrets_cache.set(cache_key, decrypted_value, ttl_seconds=SECRETS_CACHE_TTL_SECONDS).
secrets_cache_set(cache_key, decrypted_value) ==
    /\ cache' = TTLCache_set(cache, cache_key, decrypted_value)
    /\ expires_at' = expires_set(expires_at, cache_key, SECRETS_CACHE_TTL_SECONDS)

\* decrypt_value, then secrets_cache.set and the return of the plaintext.
GetDecrypt(t) ==
    /\ th[t].pc = "get_decrypt"
    /\ LET r == th[t]
           secret == CHOOSE x \in r.existing : TRUE
           f == get_fernet
           decrypted_value == decrypt_value(f.fernet, secret.encrypted_value)
       IN IF f.raised
          THEN /\ GetReturn(t, [r EXCEPT !.cfgerr = TRUE, !.raised = secrets_get_failed.raised],
                            secrets_get_failed.ret)
               /\ UNCHANGED <<fernet, cache, expires_at>>
          ELSE /\ fernet' = f.fernet
               /\ IF decrypted_value = InvalidToken
                  THEN /\ GetReturn(t, [r EXCEPT !.bad = TRUE], None)
                       /\ UNCHANGED <<cache, expires_at>>
                  ELSE /\ secrets_cache_set(ThCacheKey(r), decrypted_value)
                       /\ GetReturn(t, r, decrypted_value)
    /\ UNCHANGED <<SECRET_KEY, env, store, nextId, pre, nops>>
    /\ UNCHANGED llm_vars
    /\ Derivation(get_fernet)
    /\ UNCHANGED fc
    /\ UNCHANGED now

\* ------------------------------------------------------------- _set_secret
\* Mutant of SetEvict: _set_secret without the cache invalidation.
SetEvict_NoEvict(t) ==
    /\ th[t].pc = "set_evict"
    /\ th' = [th EXCEPT ![t].pc = "set_select", ![t].evict = "none"]
    /\ UNCHANGED <<SECRET_KEY, env, fernet, store, nextId, cache, hist, pre, settled, nops>>
    /\ UNCHANGED llm_vars
    /\ UNCHANGED cipher_vars
    /\ UNCHANGED clock_vars

\* Mutant of SetEvict: every entry of the cache is dropped.
SetEvict_AllKeys(t) ==
    /\ th[t].pc = "set_evict"
    /\ cache' = [k \in DOMAIN cache |-> NoEntry]
    /\ expires_at' = [k \in DOMAIN cache |-> 0]
    /\ th' = [th EXCEPT ![t].pc = "set_select",
                        ![t].evict = IF th[t].wrote THEN "after" ELSE "before"]
    /\ UNCHANGED <<SECRET_KEY, env, fernet, store, nextId, hist, pre, settled, nops>>
    /\ UNCHANGED llm_vars
    /\ UNCHANGED cipher_vars
    /\ UNCHANGED now

\* secrets_cache.delete(cache_key), the first statement of _set_secret.
SetEvict(t) ==
    /\ th[t].pc = "set_evict"
    /\ cache' = TTLCache_delete(cache, ThCacheKey(th[t]))
    /\ expires_at' = expires_delete(expires_at, ThCacheKey(th[t]))
    /\ th' = [th EXCEPT ![t].pc = "set_select",
                        ![t].evict = IF th[t].wrote THEN "after" ELSE "before"]
    /\ UNCHANGED <<SECRET_KEY, env, fernet, store, nextId, hist, pre, settled, nops>>
    /\ UNCHANGED llm_vars
    /\ UNCHANGED cipher_vars
    /\ UNCHANGED now

\* encrypt_value, then the SELECT of the existing row.
SetSelect(t) ==
    /\ th[t].pc = "set_select"
    /\ LET r == th[t]
           f == get_fernet
       IN IF f.raised
          THEN /\ Return(t, [r EXCEPT !.cfgerr = TRUE, !.raised = secrets_set_failed.raised,
                                      !.ok = secrets_set_failed.ok])
               /\ UNCHANGED fernet
          ELSE /\ fernet' = f.fernet
               /\ \/ Return(t, [r EXCEPT !.failed = TRUE, !.raised = secrets_set_failed.raised,
                                         !.ok = secrets_set_failed.ok])
                  \/ /\ th' = [th EXCEPT ![t].pc = "set_commit",
                                         ![t].existing = SelectByPath(store, ThFullPath(r))]
                     /\ UNCHANGED <<hist, settled>>
    /\ UNCHANGED <<SECRET_KEY, env, store, nextId, cache, pre, nops>>
    /\ UNCHANGED llm_vars
    /\ Derivation(get_fernet)
    /\ UNCHANGED fc
    /\ UNCHANGED clock_vars

\* Mutant of SetCommit: the table has no unique constraint on path.
SetCommit_NoUnique(t) ==
    /\ th[t].pc = "set_commit"
    /\ LET r == th[t]
           encrypted_value == encrypt_value(fernet, r.value)
           live == IF r.existing = {} THEN {}
                   ELSE {x \in store : x.id = (CHOOSE e \in r.existing : TRUE).id}
       IN \/ /\ Return(t, [r EXCEPT !.failed = TRUE, !.raised = secrets_set_failed.raised,
                                    !.ok = secrets_set_failed.ok])
             /\ UNCHANGED <<store, nextId>>
          \/ /\ r.existing # {}
             /\ live # {}
             /\ store' = (store \ live)
                           \cup {[x EXCEPT !.encrypted_value = encrypted_value] : x \in live}
             /\ Return(t, [r EXCEPT !.wrote = TRUE, !.ok = TRUE])
             /\ UNCHANGED nextId
          \/ /\ r.existing # {}
             /\ live = {}
             /\ Return(t, [r EXCEPT !.conflict = TRUE, !.raised = secrets_set_failed.raised,
                                    !.ok = secrets_set_failed.ok])
             /\ UNCHANGED <<store, nextId>>
          \/ /\ r.existing = {}
             /\ store' = store \cup {Row(nextId, ThFullPath(r), encrypted_value)}
             /\ nextId' = nextId + 1
             /\ Return(t, [r EXCEPT !.wrote = TRUE, !.ok = TRUE])
    /\ UNCHANGED <<SECRET_KEY, env, fernet, cache, pre, nops>>
    /\ UNCHANGED llm_vars
    /\ UNCHANGED cipher_vars
    /\ UNCHANGED clock_vars

\* Mutant of SetCommit: a failing commit leaves the new ciphertext behind.
SetCommit_FailsAfterWrite(t) ==
    /\ th[t].pc = "set_commit"
    /\ LET r == th[t]
           encrypted_value == encrypt_value(fernet, r.value)
           live == IF r.existing = {} THEN {}
                   ELSE {x \in store : x.id = (CHOOSE e \in r.existing : TRUE).id}
       IN \/ /\ Return(t, [r EXCEPT !.failed = TRUE, !.raised = secrets_set_failed.raised,
                                    !.ok = secrets_set_failed.ok])
             /\ store' = (store \ SelectByPath(store, ThFullPath(r)))
                           \cup {Row(nextId, ThFullPath(r), encrypted_value)}
             /\ nextId' = nextId + 1
          \/ /\ r.existing # {}
             /\ live # {}
             /\ store' = (store \ live)
                           \cup {[x EXCEPT !.encrypted_value = encrypted_value] : x \in live}
             /\ Return(t, [r EXCEPT !.wrote = TRUE, !.ok = TRUE])
             /\ UNCHANGED nextId
          \/ /\ r.existing # {}
             /\ live = {}
             /\ Return(t, [r EXCEPT !.conflict = TRUE, !.raised = secrets_set_failed.raised,
                                    !.ok = secrets_set_failed.ok])
             /\ UNCHANGED <<store, nextId>>
          \/ /\ r.existing = {}
             /\ SelectByPath(store, ThFullPath(r)) = {}
             /\ store' = store \cup {Row(nextId, ThFullPath(r), encrypted_value)}
             /\ nextId' = nextId + 1
             /\ Return(t, [r EXCEPT !.wrote = TRUE, !.ok = TRUE])
          \/ /\ r.existing = {}
             /\ SelectByPath(store, ThFullPath(r)) # {}
             /\ Return(t, [r EXCEPT !.conflict = TRUE, !.raised = secrets_set_failed.raised,
                                    !.ok = secrets_set_failed.ok])
             /\ UNCHANGED <<store, nextId>>
    /\ UNCHANGED <<SECRET_KEY, env, fernet, cache, pre, nops>>
    /\ UNCHANGED llm_vars
    /\ UNCHANGED cipher_vars
    /\ UNCHANGED clock_vars

\* The UPDATE of the selected row, or the INSERT of a new one, and the commit.
\* An UPDATE that matches no row and an INSERT of a path that exists raise.
SetCommit(t) ==
    /\ th[t].pc = "set_commit"
    /\ LET r == th[t]
           encrypted_value == encrypt_value(fernet, r.value)
           live == IF r.existing = {} THEN {}
                   ELSE {x \in store : x.id = (CHOOSE e \in r.existing : TRUE).id}
       IN \/ /\ Return(t, [r EXCEPT !.failed = TRUE, !.raised = secrets_set_failed.raised,
                                    !.ok = secrets_set_failed.ok])
             /\ UNCHANGED <<store, nextId>>
          \/ /\ r.existing # {}
             /\ live # {}
             /\ store' = (store \ live)
                           \cup {[x EXCEPT !.encrypted_value = encrypted_value] : x \in live}
             /\ Return(t, [r EXCEPT !.wrote = TRUE, !.ok = TRUE])
             /\ UNCHANGED nextId
          \/ /\ r.existing # {}
             /\ live = {}
             /\ Return(t, [r EXCEPT !.conflict = TRUE, !.raised = secrets_set_failed.raised,
                                    !.ok = secrets_set_failed.ok])
             /\ UNCHANGED <<store, nextId>>
          \/ /\ r.existing = {}
             /\ SelectByPath(store, ThFullPath(r)) = {}
             /\ store' = store \cup {Row(nextId, ThFullPath(r), encrypted_value)}
             /\ nextId' = nextId + 1
             /\ Return(t, [r EXCEPT !.wrote = TRUE, !.ok = TRUE])
          \/ /\ r.existing = {}
             /\ SelectByPath(store, ThFullPath(r)) # {}
             /\ Return(t, [r EXCEPT !.conflict = TRUE, !.raised = secrets_set_failed.raised,
                                    !.ok = secrets_set_failed.ok])
             /\ UNCHANGED <<store, nextId>>
    /\ UNCHANGED <<SECRET_KEY, env, fernet, cache, pre, nops>>
    /\ UNCHANGED llm_vars
    /\ UNCHANGED cipher_vars
    /\ UNCHANGED clock_vars

\* ---------------------------------------------------------- _delete_secret
\* secrets_cache.delete(cache_key), the first statement of _delete_secret.
DelEvict(t) ==
    /\ th[t].pc = "del_evict"
    /\ cache' = TTLCache_delete(cache, ThCacheKey(th[t]))
    /\ expires_at' = expires_delete(expires_at, ThCacheKey(th[t]))
    /\ th' = [th EXCEPT ![t].pc = "del_select",
                        ![t].evict = IF th[t].wrote THEN "after" ELSE "before"]
    /\ UNCHANGED <<SECRET_KEY, env, fernet, store, nextId, hist, pre, settled, nops>>
    /\ UNCHANGED llm_vars
    /\ UNCHANGED cipher_vars
    /\ UNCHANGED now

\* The SELECT: no row returns True at once.
DelSelect(t) ==
    /\ th[t].pc = "del_select"
    /\ LET r == th[t]
           rows == SelectByPath(store, ThFullPath(r))
       IN \/ Return(t, [r EXCEPT !.failed = TRUE, !.raised = secrets_delete_failed.raised,
                                 !.ok = secrets_delete_failed.ok])
          \/ /\ rows = {}
             /\ Return(t, [r EXCEPT !.ok = delete_missing_ok])
          \/ /\ rows # {}
             /\ th' = [th EXCEPT ![t].pc = "del_commit", ![t].existing = rows]
             /\ UNCHANGED <<hist, settled>>
    /\ UNCHANGED <<SECRET_KEY, env, fernet, store, nextId, cache, pre, nops>>
    /\ UNCHANGED llm_vars
    /\ UNCHANGED cipher_vars
    /\ UNCHANGED clock_vars

\* The DELETE of the selected row and the commit.
DelCommit(t) ==
    /\ th[t].pc = "del_commit"
    /\ LET r == th[t]
           live == {x \in store : x.id = (CHOOSE e \in r.existing : TRUE).id}
       IN \/ /\ Return(t, [r EXCEPT !.failed = TRUE, !.raised = secrets_delete_failed.raised,
                                    !.ok = secrets_delete_failed.ok])
             /\ UNCHANGED store
          \/ /\ store' = store \ live
             /\ Return(t, [r EXCEPT !.wrote = (live # {}), !.ok = TRUE])
    /\ UNCHANGED <<SECRET_KEY, env, fernet, nextId, cache, pre, nops>>
    /\ UNCHANGED llm_vars
    /\ UNCHANGED cipher_vars
    /\ UNCHANGED clock_vars

\* ------------------------------------------------------------ environment
\* Time passes beyond an entry's expires_at: TTLCache.get no longer returns it.
Expire ==
    \E k \in CacheKeys :
        /\ cache[k] # NoEntry
        /\ cache' = [cache EXCEPT ![k] = NoEntry]
        /\ expires_at' = expires_delete(expires_at, k)
        /\ UNCHANGED <<SECRET_KEY, env, fernet, store, nextId, th, hist, pre, settled, nops>>
        /\ UNCHANGED llm_vars
        /\ UNCHANGED cipher_vars
        /\ UNCHANGED now

\* --------------------------------------------------------- specifications
Step(t) ==
    \/ StartGet(t)
    \/ StartSet(t)
    \/ StartDelete(t)
    \/ StartResolve(t)
    \/ GetCache(t)
    \/ GetSelect(t)
    \/ GetDecrypt(t)
    \/ SetEvict(t)
    \/ SetSelect(t)
    \/ SetCommit(t)
    \/ DelEvict(t)
    \/ DelSelect(t)
    \/ DelCommit(t)

\* Request threads run concurrently.
Next == (\E t \in Threads : Step(t)) \/ Expire

\* The concurrent runs start with the master secret configured and no
\* environment default.
InitConc ==
    /\ Init
    /\ SECRET_KEY = "m1"
    /\ \A p \in DOMAIN env : env[p] = None

Spec == InitConc /\ [][Next]_vars

\* One request thread: calls run one after the other.
NextSeq == (\E t \in SeqThreads : Step(t)) \/ Expire

SpecSeq == Init /\ [][NextSeq]_vars

\* One request thread that stores API keys, resolves them and asks for their
\* status, with the master secret configured.
InitStatus == Init /\ SECRET_KEY = "m1"
NextStatus ==
    \E t \in SeqThreads :
        \/ StartSet(t)
        \/ StartResolve(t)
        \/ StartListStatus(t)
        \/ GetCache(t)
        \/ GetSelect(t)
        \/ GetDecrypt(t)
        \/ SetEvict(t)
        \/ SetSelect(t)
        \/ SetCommit(t)
SpecStatus == InitStatus /\ [][NextStatus]_vars

\* Time passes: the clock moves on by half a TTL or a whole one.
Tick ==
    \E d \in TickSteps :
        /\ now + d <= MaxTime
        /\ now' = now + d
        /\ UNCHANGED <<SECRET_KEY, env, fernet, store, nextId, cache, th, hist, pre, settled,
                       nops, expires_at>>
        /\ UNCHANGED llm_vars
        /\ UNCHANGED cipher_vars

\* One request thread that reads and stores secrets while time passes, with
\* the master secret configured and no environment fallback.
InitTTL == Init /\ SECRET_KEY = "m1" /\ \A p \in DOMAIN env : env[p] = None
NextTTL ==
    \/ \E t \in SeqThreads :
          \/ StartGet(t)
          \/ StartSet(t)
          \/ GetCache(t)
          \/ GetSelect(t)
          \/ GetDecrypt(t)
          \/ SetEvict(t)
          \/ SetSelect(t)
          \/ SetCommit(t)
    \/ Tick
SpecTTL == InitTTL /\ [][NextTTL]_vars

\* ------------------------------------------------ get_fernet, step by step
\* A thread calls get_fernet (through encrypt_value or decrypt_value).
FernetStart(t) ==
    /\ fc[t].pc = "idle"
    /\ nops < MaxOps
    /\ nops' = nops + 1
    /\ fc' = [fc EXCEPT ![t] = [IdleFc EXCEPT !.pc = "check", !.after_init = (fernet # None)]]
    /\ UNCHANGED <<SECRET_KEY, env, fernet, store, nextId, cache, th, hist, pre, settled,
                   fernet_obj, kdf_calls>>
    /\ UNCHANGED clock_vars
    /\ UNCHANGED llm_vars

\* "if _fernet is not None: return _fernet", then the SECRET_KEY test.
FernetCheck(t) ==
    /\ fc[t].pc = "check"
    /\ fc' = [fc EXCEPT ![t] =
                IF fernet # None THEN [@ EXCEPT !.pc = "idle", !.ret = fernet_obj]
                ELSE IF SECRET_KEY = "" THEN [@ EXCEPT !.pc = "idle", !.raised = TRUE]
                ELSE [@ EXCEPT !.pc = "derive"]]
    /\ UNCHANGED <<SECRET_KEY, env, fernet, store, nextId, cache, th, hist, pre, settled, nops,
                   fernet_obj, kdf_calls>>
    /\ UNCHANGED clock_vars
    /\ UNCHANGED llm_vars

\* The key derivation, "_fernet = Fernet(key)" and the return of the new
\* object.
FernetAssign(t) ==
    /\ fc[t].pc = "derive"
    /\ fernet' = derive_key(SECRET_KEY)
    /\ kdf_calls' = kdf_calls + 1
    /\ fernet_obj' = kdf_calls + 1
    /\ fc' = [fc EXCEPT ![t] = [@ EXCEPT !.pc = "idle", !.ret = kdf_calls + 1,
                                         !.derived = TRUE]]
    /\ UNCHANGED <<SECRET_KEY, env, store, nextId, cache, th, hist, pre, settled, nops>>
    /\ UNCHANGED clock_vars
    /\ UNCHANGED llm_vars

\* Concurrent threads that call the cipher accessor.
NextFernet == \E t \in Threads : FernetStart(t) \/ FernetCheck(t) \/ FernetAssign(t)
SpecFernet == Init /\ [][NextFernet]_vars


\* ===================================================== LLM settings: calls
\* The payloads of the update calls (the fields the request sets).
\* The override arguments of get_chat_model_with_context.
ProviderOverrides == {None, "openai"}
ModelOverrides == {None, "", "gpt-4o-mini"}
TemperatureOverrides == {None, "0.0"}
MaxTokensOverrides == {None, "1024"}

OrgUpdates ==
    {[default_model |-> "claude-opus-4-20250514"],
     [allow_user_customization |-> FALSE]}
TeamUpdates == {[default_model |-> "gpt-4o"]}
UserUpdates == {[preferred_model |-> "gemini-2.5-pro"]}

\* Request thread t enters a settings call with the locals r.
LBegin(t, r) ==
    /\ rq[t].pc = "idle"
    /\ ncalls < MaxCalls
    /\ ncalls' = ncalls + 1
    /\ rq' = [rq EXCEPT ![t] = [r EXCEPT !.request_cache = rq[t].request_cache,
                                         !.seen = rq[t].seen]]
    /\ UNCHANGED <<organization_llm_settings, team_llm_settings, user_llm_settings,
                   custom_llm_provider, llm_next_id, ehist>>
    /\ UNCHANGED secret_vars

\* Thread t's settings call returns (or raises) with the record r.
LReturn(t, r) ==
    /\ ehist' = Push(ehist, [r EXCEPT !.pc = "returned", !.request_cache = EmptyRequestCache,
                                      !.seen = NothingSeen])
    /\ rq' = [rq EXCEPT ![t] = IdleRq(r.request_cache, r.seen)]

StartGetOrCreateOrg(t) ==
    \E o \in Orgs :
        LBegin(t, [IdleRq(EmptyRequestCache, NothingSeen) EXCEPT
                     !.pc = "org_select", !.op = "get_or_create_org", !.organization_id = o])

StartGetOrCreateTeam(t) ==
    \E tm \in Teams :
        LBegin(t, [IdleRq(EmptyRequestCache, NothingSeen) EXCEPT
                     !.pc = "team_select", !.op = "get_or_create_team", !.team_id = tm])

StartGetOrCreateUser(t) ==
    \E u \in Users :
        LBegin(t, [IdleRq(EmptyRequestCache, NothingSeen) EXCEPT
                     !.pc = "user_select", !.op = "get_or_create_user", !.user_id = u])

StartUpdateOrg(t) ==
    \E o \in Orgs, data \in OrgUpdates :
        LBegin(t, [IdleRq(EmptyRequestCache, NothingSeen) EXCEPT
                     !.pc = "org_select", !.op = "update_org", !.organization_id = o,
                     !.data = data])

StartUpdateTeam(t) ==
    \E tm \in Teams, data \in TeamUpdates :
        LBegin(t, [IdleRq(EmptyRequestCache, NothingSeen) EXCEPT
                     !.pc = "team_select", !.op = "update_team", !.team_id = tm,
                     !.data = data])

StartUpdateUser(t) ==
    \E u \in Users, data \in UserUpdates :
        LBegin(t, [IdleRq(EmptyRequestCache, NothingSeen) EXCEPT
                     !.pc = "user_select", !.op = "update_user", !.user_id = u,
                     !.data = data])

\* get_effective_llm_settings(session, user_id, organization_id, team_id).
StartEffective(t) ==
    \E u \in Users, o \in Orgs, tm \in TeamArgs :
        LBegin(t, [IdleRq(EmptyRequestCache, NothingSeen) EXCEPT
                     !.pc = "eff_cache", !.op = "effective", !.user_id = u,
                     !.organization_id = o, !.team_id = tm,
                     !.repeat = (rq[t].seen[<<u, o, tm>>] # {})])

\* get_chat_model_with_context for a user, with a session: it calls
\* get_model_for_chat, which starts with get_effective_llm_settings.
StartChat(t) ==
    \E u \in Users, o \in Orgs, tm \in TeamArgs,
       provider \in ProviderOverrides, model \in ModelOverrides,
       temperature \in TemperatureOverrides, max_tokens \in MaxTokensOverrides :
        LBegin(t, [IdleRq(EmptyRequestCache, NothingSeen) EXCEPT
                     !.pc = "eff_cache", !.op = "chat", !.user_id = u,
                     !.organization_id = o, !.team_id = tm,
                     !.provider_override = provider, !.model_override = model,
                     !.temperature_override = temperature,
                     !.max_tokens_override = max_tokens,
                     !.repeat = (rq[t].seen[<<u, o, tm>>] # {})])

\* The request ends and the next one begins: the request cache is cleared.
NewRequest(t) ==
    /\ rq[t].pc = "idle"
    /\ rq[t].request_cache # EmptyRequestCache \/ rq[t].seen # NothingSeen
    /\ rq' = [rq EXCEPT ![t] = IdleRq(EmptyRequestCache, NothingSeen)]
    /\ UNCHANGED <<organization_llm_settings, team_llm_settings, user_llm_settings,
                   custom_llm_provider, llm_next_id, ehist, ncalls>>
    /\ UNCHANGED secret_vars

\* request_cached_sync: a result cached under the key in this request is
\* returned without calling the function.
EffCache(t) ==
    /\ rq[t].pc = "eff_cache"
    /\ LET r == rq[t]
           key == _llm_settings_cache_key(r.user_id, r.organization_id, r.team_id)
       IN IF r.request_cache[key] # {}
          THEN LReturn(t, WithChatSettings([r EXCEPT !.hit = TRUE,
                                                     !.result = r.request_cache[key]]))
          ELSE /\ rq' = [rq EXCEPT ![t].pc = "org_select"]
               /\ UNCHANGED ehist
    /\ UNCHANGED <<organization_llm_settings, team_llm_settings, user_llm_settings,
                   custom_llm_provider, llm_next_id, ncalls>>
    /\ UNCHANGED secret_vars

\* The request cache is bounded: entries other cached calls of the request
\* add push the oldest ones out, so a stored result can go before the
\* request ends.
RequestCacheEvict(t) ==
    /\ rq[t].pc = "idle"
    /\ \E key \in LLMCacheKeys :
         /\ rq[t].request_cache[key] # {}
         /\ rq' = [rq EXCEPT ![t].request_cache[key] = {}]
    /\ UNCHANGED <<organization_llm_settings, team_llm_settings, user_llm_settings,
                   custom_llm_provider, llm_next_id, ehist, ncalls>>
    /\ UNCHANGED secret_vars

\* The calls that run get_effective_llm_settings: the function itself, and
\* get_chat_model_with_context through get_model_for_chat.
EffOps == {"effective", "chat"}

\* Where a call goes on once its organization, team or user row is loaded.
AfterOrg(r) ==
    IF r.op = "update_org" THEN "org_update"
    ELSE IF r.op \in EffOps
         THEN (IF Truthy(r.team_id) THEN "team_select" ELSE "user_select")
         ELSE "return"
AfterTeam(r) ==
    IF r.op = "update_team" THEN "team_update"
    ELSE IF r.op \in EffOps THEN "user_select" ELSE "return"
AfterUser(r) ==
    IF r.op = "update_user" THEN "user_update"
    ELSE IF r.op \in EffOps THEN "eff_models" ELSE "return"

\* The call goes on at pc, or returns the row it loaded.
Proceed(t, r, pc) ==
    IF pc = "return" THEN LReturn(t, r)
    ELSE /\ rq' = [rq EXCEPT ![t] = [r EXCEPT !.pc = pc]]
         /\ UNCHANGED ehist

\* ------------------------------------------------ get_or_create_*_llm_settings
\* The SELECT of get_or_create_org_llm_settings: the row, when there is one.
OrgSelect(t) ==
    /\ rq[t].pc = "org_select"
    /\ LET r == rq[t]
           rows == SelectWhere(organization_llm_settings, "organization_id", r.organization_id)
       IN IF rows # {}
          THEN Proceed(t, [r EXCEPT !.org_settings = {CHOOSE x \in rows : TRUE}], AfterOrg(r))
          ELSE Proceed(t, r, "org_insert")
    /\ UNCHANGED <<organization_llm_settings, team_llm_settings, user_llm_settings,
                   custom_llm_provider, llm_next_id, ncalls>>
    /\ UNCHANGED secret_vars

\* Mutant of OrgInsert: organization_id carries no unique constraint.
OrgInsert_NoUnique(t) ==
    /\ rq[t].pc = "org_insert"
    /\ LET r == rq[t]
           settings == default_org_settings(llm_next_id, r.organization_id)
       IN /\ organization_llm_settings' = organization_llm_settings \cup {settings}
          /\ llm_next_id' = llm_next_id + 1
          /\ Proceed(t, [r EXCEPT !.org_settings = {settings},
                                  !.created = r.created \cup {"org"}], AfterOrg(r))
    /\ UNCHANGED <<team_llm_settings, user_llm_settings, custom_llm_provider, ncalls>>
    /\ UNCHANGED secret_vars

\* session.add(settings); session.commit(): the default row is inserted, or
\* the unique constraint on organization_id fails the commit and the call
\* raises.
OrgInsert(t) ==
    /\ rq[t].pc = "org_insert"
    /\ LET r == rq[t]
           settings == default_org_settings(llm_next_id, r.organization_id)
       IN IF SelectWhere(organization_llm_settings, "organization_id", r.organization_id) = {}
          THEN /\ organization_llm_settings' = organization_llm_settings \cup {settings}
               /\ llm_next_id' = llm_next_id + 1
               /\ Proceed(t, [r EXCEPT !.org_settings = {settings},
                                       !.created = r.created \cup {"org"}], AfterOrg(r))
          ELSE /\ LReturn(t, [r EXCEPT !.raised = TRUE])
               /\ UNCHANGED <<organization_llm_settings, llm_next_id>>
    /\ UNCHANGED <<team_llm_settings, user_llm_settings, custom_llm_provider, ncalls>>
    /\ UNCHANGED secret_vars

\* The SELECT of get_or_create_team_llm_settings.
TeamSelect(t) ==
    /\ rq[t].pc = "team_select"
    /\ LET r == rq[t]
           rows == SelectWhere(team_llm_settings, "team_id", r.team_id)
       IN IF rows # {}
          THEN Proceed(t, [r EXCEPT !.team_settings = {CHOOSE x \in rows : TRUE}], AfterTeam(r))
          ELSE Proceed(t, r, "team_insert")
    /\ UNCHANGED <<organization_llm_settings, team_llm_settings, user_llm_settings,
                   custom_llm_provider, llm_next_id, ncalls>>
    /\ UNCHANGED secret_vars

\* The INSERT and commit of get_or_create_team_llm_settings.
TeamInsert(t) ==
    /\ rq[t].pc = "team_insert"
    /\ LET r == rq[t]
           settings == default_team_settings(llm_next_id, r.team_id)
       IN IF SelectWhere(team_llm_settings, "team_id", r.team_id) = {}
          THEN /\ team_llm_settings' = team_llm_settings \cup {settings}
               /\ llm_next_id' = llm_next_id + 1
               /\ Proceed(t, [r EXCEPT !.team_settings = {settings},
                                       !.created = r.created \cup {"team"}], AfterTeam(r))
          ELSE /\ LReturn(t, [r EXCEPT !.raised = TRUE])
               /\ UNCHANGED <<team_llm_settings, llm_next_id>>
    /\ UNCHANGED <<organization_llm_settings, user_llm_settings, custom_llm_provider, ncalls>>
    /\ UNCHANGED secret_vars

\* The SELECT of get_or_create_user_llm_settings.
UserSelect(t) ==
    /\ rq[t].pc = "user_select"
    /\ LET r == rq[t]
           rows == SelectWhere(user_llm_settings, "user_id", r.user_id)
       IN IF rows # {}
          THEN Proceed(t, [r EXCEPT !.user_settings = {CHOOSE x \in rows : TRUE}], AfterUser(r))
          ELSE Proceed(t, r, "user_insert")
    /\ UNCHANGED <<organization_llm_settings, team_llm_settings, user_llm_settings,
                   custom_llm_provider, llm_next_id, ncalls>>
    /\ UNCHANGED secret_vars

\* The INSERT and commit of get_or_create_user_llm_settings.
UserInsert(t) ==
    /\ rq[t].pc = "user_insert"
    /\ LET r == rq[t]
           settings == default_user_settings(llm_next_id, r.user_id)
       IN IF SelectWhere(user_llm_settings, "user_id", r.user_id) = {}
          THEN /\ user_llm_settings' = user_llm_settings \cup {settings}
               /\ llm_next_id' = llm_next_id + 1
               /\ Proceed(t, [r EXCEPT !.user_settings = {settings},
                                       !.created = r.created \cup {"user"}], AfterUser(r))
          ELSE /\ LReturn(t, [r EXCEPT !.raised = TRUE])
               /\ UNCHANGED <<user_llm_settings, llm_next_id>>
    /\ UNCHANGED <<organization_llm_settings, team_llm_settings, custom_llm_provider, ncalls>>
    /\ UNCHANGED secret_vars

\* ---------------------------------------------------- update_*_llm_settings
\* setattr for every field of the payload, then the commit: the UPDATE writes
\* the columns whose value the payload changed on the loaded row.
ApplyUpdate(loaded, current, data) ==
    [f \in DOMAIN current |->
        IF f \in DOMAIN data /\ data[f] # loaded[f] THEN data[f] ELSE current[f]]

\* The table after the UPDATE of the row loaded as the one row of settings.
Updated(table, settings, data) ==
    LET loaded == CHOOSE x \in settings : TRUE
        live == {x \in table : x.id = loaded.id}
    IN (table \ live) \cup {ApplyUpdate(loaded, x, data) : x \in live}

OrgUpdate(t) ==
    /\ rq[t].pc = "org_update"
    /\ LET r == rq[t]
           table == Updated(organization_llm_settings, r.org_settings, r.data)
       IN /\ organization_llm_settings' = table
          /\ LReturn(t, [r EXCEPT !.org_settings =
                                     {x \in table : x.id \in {y.id : y \in r.org_settings}}])
    /\ UNCHANGED <<team_llm_settings, user_llm_settings, custom_llm_provider,
                   llm_next_id, ncalls>>
    /\ UNCHANGED secret_vars

TeamUpdate(t) ==
    /\ rq[t].pc = "team_update"
    /\ LET r == rq[t]
           table == Updated(team_llm_settings, r.team_settings, r.data)
       IN /\ team_llm_settings' = table
          /\ LReturn(t, [r EXCEPT !.team_settings =
                                     {x \in table : x.id \in {y.id : y \in r.team_settings}}])
    /\ UNCHANGED <<organization_llm_settings, user_llm_settings, custom_llm_provider,
                   llm_next_id, ncalls>>
    /\ UNCHANGED secret_vars

UserUpdate(t) ==
    /\ rq[t].pc = "user_update"
    /\ LET r == rq[t]
           table == Updated(user_llm_settings, r.user_settings, r.data)
       IN /\ user_llm_settings' = table
          /\ LReturn(t, [r EXCEPT !.user_settings =
                                     {x \in table : x.id \in {y.id : y \in r.user_settings}}])
    /\ UNCHANGED <<organization_llm_settings, team_llm_settings, custom_llm_provider,
                   llm_next_id, ncalls>>
    /\ UNCHANGED secret_vars

\* ------------------------------------------- get_effective_llm_settings
\* get_available_models: its get_or_create calls find the rows this call has
\* loaded; its list_custom_providers query returns the rows in some order.
EffModels(t) ==
    /\ rq[t].pc = "eff_models"
    /\ LET r == rq[t]
           org == CHOOSE x \in r.org_settings : TRUE
           rows == list_custom_providers(custom_llm_provider, r.organization_id, r.team_id)
       IN \E custom_providers \in Lists(rows) :
            /\ rq' = [rq EXCEPT ![t].pc = "eff_return",
                                ![t].available_models =
                                    get_available_models(org, r.team_settings, custom_providers)]
            /\ UNCHANGED ehist
    /\ UNCHANGED <<organization_llm_settings, team_llm_settings, user_llm_settings,
                   custom_llm_provider, llm_next_id, ncalls>>
    /\ UNCHANGED secret_vars

\* The second list_custom_providers query and the return of
\* EffectiveLLMSettings, which request_cached_sync stores under the key.
EffReturn(t) ==
    /\ rq[t].pc = "eff_return"
    /\ LET r == rq[t]
           org == CHOOSE x \in r.org_settings : TRUE
           us == CHOOSE x \in r.user_settings : TRUE
           custom_providers ==
               list_custom_providers(custom_llm_provider, r.organization_id, r.team_id)
           result == EffectiveLLMSettings(org, r.team_settings, us, r.available_models,
                                          custom_providers)
           key == _llm_settings_cache_key(r.user_id, r.organization_id, r.team_id)
       IN LReturn(t, WithChatSettings(
                        [r EXCEPT !.result = {result},
                                  !.request_cache = [r.request_cache EXCEPT ![key] = {result}],
                                  !.seen = [r.seen EXCEPT
                                              ![<<r.user_id, r.organization_id, r.team_id>>] =
                                                  @ \cup {result}]]))
    /\ UNCHANGED <<organization_llm_settings, team_llm_settings, user_llm_settings,
                   custom_llm_provider, llm_next_id, ncalls>>
    /\ UNCHANGED secret_vars

\* ------------------------------------------------ LLM settings: specifications
\* The steps of get_effective_llm_settings.
EffStep(t) ==
    \/ StartEffective(t)
    \/ NewRequest(t)
    \/ EffCache(t)
    \/ OrgSelect(t)
    \/ OrgInsert(t)
    \/ TeamSelect(t)
    \/ TeamInsert(t)
    \/ UserSelect(t)
    \/ UserInsert(t)
    \/ EffModels(t)
    \/ EffReturn(t)

\* The steps of the calls that only load or update one row.
RowStep(t) ==
    \/ StartGetOrCreateOrg(t)
    \/ StartGetOrCreateTeam(t)
    \/ StartGetOrCreateUser(t)
    \/ StartUpdateOrg(t)
    \/ StartUpdateTeam(t)
    \/ StartUpdateUser(t)
    \/ OrgUpdate(t)
    \/ TeamUpdate(t)
    \/ UserUpdate(t)

\* The secret storage at rest, untouched by the settings calls.
SecretsAtRest ==
    /\ SecretsInit
    /\ SECRET_KEY = "m1"
    /\ \A p \in DOMAIN env : env[p] = None
    /\ store = {}

\* Settings calls of concurrent request threads, from empty tables.
InitLLM == SecretsAtRest /\ LLMIdle
NextLLM == \E t \in Threads : EffStep(t) \/ RowStep(t)
SpecLLM == InitLLM /\ [][NextLLM]_vars

\* Settings calls of one request thread, one after the other.
NextLLMSeq == \E t \in SeqThreads : EffStep(t) \/ RowStep(t) \/ RequestCacheEvict(t)
SpecLLMSeq == InitLLM /\ [][NextLLMSeq]_vars

\* Rows earlier requests left in the settings tables.
\* Organization rows that differ in their parameters and permission flags.
OrgRowsOverrides ==
    {[default_org_settings(0, o) EXCEPT
         !.default_temperature = temperature, !.default_max_tokens = max_tokens,
         !.allow_team_customization = allow_team, !.allow_user_customization = allow_user] :
       o \in Orgs, temperature \in {"0.7", "0.2"}, max_tokens \in {None, "4096"},
       allow_team \in BOOLEAN, allow_user \in BOOLEAN}

TeamRowsOverrides ==
    {[default_team_settings(0, tm) EXCEPT
         !.default_provider = provider, !.default_model = model,
         !.default_temperature = temperature, !.default_max_tokens = max_tokens,
         !.allow_user_customization = allow_user] :
       tm \in Teams, provider \in {None, "openai"}, model \in {None, "gpt-4o"},
       temperature \in {None, "0.5"}, max_tokens \in {None, "2048"},
       allow_user \in BOOLEAN}

UserRowsOverrides ==
    {[default_user_settings(0, u) EXCEPT
         !.preferred_provider = provider, !.preferred_model = model,
         !.preferred_temperature = temperature] :
       u \in Users, provider \in {None, "google"}, model \in {None, "gemini-2.5-pro"},
       temperature \in {None, "1.0"}}

\* Organization and team rows that differ in their restriction lists.
OrgRowsCatalog ==
    {[default_org_settings(0, o) EXCEPT
         !.enabled_providers = enabled_providers, !.disabled_models = disabled_models,
         !.allow_team_customization = allow_team] :
       o \in Orgs,
       enabled_providers \in {<<"anthropic", "openai", "google">>, <<"openai">>,
                              <<"anthropic", "mistral">>, <<>>},
       disabled_models \in {<<>>, <<"gpt-4o">>, <<"llama3">>},
       allow_team \in BOOLEAN}

TeamRowsCatalog ==
    {[default_team_settings(0, tm) EXCEPT !.disabled_models = disabled_models] :
       tm \in Teams,
       disabled_models \in {<<>>, <<"o1">>, <<"gpt-4o", "team-llm">>}}

\* Custom providers: of the organization, of the team, disabled, and of
\* another team; one model entry carries no id.
CustomProviderRows ==
    {CustomProviderRow(1, "o1", None,
                       <<[id |-> "llama3", name |-> "Llama 3"], [name |-> "nameless"]>>, TRUE),
     CustomProviderRow(2, "o1", "t1", <<[id |-> "team-llm", name |-> "Team LLM"]>>, TRUE),
     CustomProviderRow(3, "o1", None, <<[id |-> "off-llm", name |-> "Off"]>>, FALSE),
     CustomProviderRow(4, "o1", "t2", <<[id |-> "t2-llm", name |-> "Other team"]>>, TRUE)}

\* At most one row of a set, as a table.
AtMostOne(rows) == {{}} \cup {{r} : r \in rows}

\* get_effective_llm_settings of one request thread, from tables that hold
\* either overrides at the three levels or restriction lists and custom
\* providers; the call that left these rows is counted in ncalls.
InitEff ==
    /\ SecretsAtRest
    /\ \/ /\ organization_llm_settings \in AtMostOne(OrgRowsOverrides)
          /\ team_llm_settings \in AtMostOne(TeamRowsOverrides)
          /\ user_llm_settings \in AtMostOne(UserRowsOverrides)
          /\ custom_llm_provider = {}
       \/ /\ organization_llm_settings \in AtMostOne(OrgRowsCatalog)
          /\ team_llm_settings \in AtMostOne(TeamRowsCatalog)
          /\ user_llm_settings = {}
          /\ custom_llm_provider \in SUBSET CustomProviderRows
    /\ llm_next_id = 5
    /\ rq = [t \in Threads |-> IdleRq(EmptyRequestCache, NothingSeen)]
    /\ ehist = <<>>
    /\ ncalls = 1

NextEff == \E t \in SeqThreads : EffStep(t)
SpecEff == InitEff /\ [][NextEff]_vars

\* Organization rows that differ in their permission flags.
OrgRowsChat ==
    {[default_org_settings(0, o) EXCEPT
         !.allow_user_customization = allow_user,
         !.allow_per_request_model_selection = allow_per_request] :
       o \in Orgs, allow_user \in BOOLEAN, allow_per_request \in BOOLEAN}

\* A user row with a preferred model.
UserRowsChat ==
    {[default_user_settings(0, u) EXCEPT !.preferred_model = "gemini-2.5-pro"] : u \in Users}

\* get_chat_model_with_context of one request thread for a user.
InitChat ==
    /\ SecretsAtRest
    /\ organization_llm_settings \in AtMostOne(OrgRowsChat)
    /\ team_llm_settings = {}
    /\ user_llm_settings \in AtMostOne(UserRowsChat)
    /\ custom_llm_provider = {}
    /\ llm_next_id = 5
    /\ rq = [t \in Threads |-> IdleRq(EmptyRequestCache, NothingSeen)]
    /\ ehist = <<>>
    /\ ncalls = 1
NextChat ==
    \E t \in SeqThreads :
        \/ StartChat(t)
        \/ NewRequest(t)
        \/ EffCache(t)
        \/ OrgSelect(t)
        \/ OrgInsert(t)
        \/ TeamSelect(t)
        \/ TeamInsert(t)
        \/ UserSelect(t)
        \/ UserInsert(t)
        \/ EffModels(t)
        \/ EffReturn(t)
SpecChat == InitChat /\ [][NextChat]_vars

\* ------------------------------------------------------------- properties
\* No thread is inside a call.
Quiet == \A t \in Threads : ~Running(t)

\* What the table holds for a full path, read off the rows: the plaintext of
\* the row when its token verifies under the key derived from SECRET_KEY,
\* else None.
RowsAt(fp) == {x \in store : x.path = fp}
Verifies(tok) == SECRET_KEY # "" /\ tok.key = derive_key(SECRET_KEY) /\ tok.mac
StoredValue(fp) ==
    IF RowsAt(fp) = {} THEN None
    ELSE LET tok == (CHOOSE x \in RowsAt(fp) : TRUE).encrypted_value
         IN IF Verifies(tok) THEN tok.pt ELSE None
Present(fp) == Truthy(StoredValue(fp))
BadRow(fp) == \E x \in RowsAt(fp) : SECRET_KEY # "" /\ ~Verifies(x.encrypted_value)

SameSecret(a, b) == a.secret_name = b.secret_name /\ a.path = b.path

\* C1 (as claimed): a get of p that starts after a set(p, s) or delete(p) has
\* returned, with no other write to p from that write's start to the get's
\* return, and whose store read does not fail, returns s (None after a
\* delete).
C1_GetAfterWriteIsFresh ==
    \A i \in 1..Len(hist) :
        (hist[i].op = "get" /\ ~hist[i].failed /\ hist[i].expect # Unknown)
            => hist[i].ret = hist[i].expect

\* C2 (as claimed): every set or delete that wrote the table and returned
\* success evicted the cache entry after that write (write-then-evict).
C2_WriteThenEvict ==
    \A i \in 1..Len(hist) :
        (IsWrite(hist[i]) /\ hist[i].ok /\ hist[i].wrote) => hist[i].evict = "after"

\* C3: in one thread, a successful set(p, s) immediately followed by a get(p)
\* whose store read does not fail returns s, whatever the cache held for p
\* before the set.
C3_SetThenGetReturnsNew ==
    (Len(hist) = 2 /\ Prev.op = "set" /\ Prev.ok /\ Last.op = "get"
        /\ SameSecret(Prev, Last) /\ ~Last.failed)
        => Last.ret = Prev.value

\* C3 witness: the set found another value cached for p, and the get that
\* followed returned the new one.
C3_Witness ==
    /\ Len(hist) = 2 /\ Prev.op = "set" /\ Prev.ok /\ Last.op = "get"
    /\ SameSecret(Prev, Last) /\ ~Last.failed
    /\ Prev.cached0 \notin {NoEntry, Prev.value}
    /\ Last.ret = Prev.value

\* C4: a successful set(p, s) leaves for p a row holding the token that seals
\* s under the derived key, and the get(p) that follows reads that row (a
\* cache miss) and returns exactly s.
C4_RoundTrip ==
    /\ (Len(hist) > 0 /\ Last.op = "set" /\ Last.ok)
         => /\ \E x \in RowsAt(ThFullPath(Last)) :
                  /\ x.encrypted_value.key = derive_key(SECRET_KEY)
                  /\ x.encrypted_value.mac
                  /\ x.encrypted_value.pt = Last.value
            /\ StoredValue(ThFullPath(Last)) = Last.value
    /\ (Len(hist) = 2 /\ Prev.op = "set" /\ Prev.ok /\ Last.op = "get"
          /\ SameSecret(Prev, Last) /\ ~Last.failed)
         => (~Last.hit /\ Last.ret = Prev.value)

\* C4 witness: a non-empty s was set where no row existed, and the get that
\* followed returned it from the table.
C4_Witness ==
    /\ Len(hist) = 2 /\ Prev.op = "set" /\ Prev.ok /\ Prev.value # ""
    /\ Last.op = "get" /\ SameSecret(Prev, Last) /\ ~Last.failed /\ ~Last.hit
    /\ Last.ret = Prev.value
    /\ \E x \in RowsAt(ThFullPath(Last)) : x.id # 0

\* The full paths get_llm_api_key looks up for a returned call r.
TeamKeyPath(r) == full_path(api_key_name(r.provider), _get_secret_path(r.org_id, r.team_id))
OrgKeyPath(r) == full_path(api_key_name(r.provider), _get_secret_path(r.org_id, None))

\* C5: get_llm_api_key whose store reads do not fail: with a team and an org
\* credential both stored, a call with team_id returns the team's and a call
\* without team_id returns the org's; with only the org credential stored, a
\* call with team_id returns the org's.
C5_FallbackOrder ==
    (Len(hist) > 0 /\ Last.op = "resolve" /\ ~Last.failed)
        => /\ (Truthy(Last.team_id) /\ Present(TeamKeyPath(Last)) /\ Present(OrgKeyPath(Last)))
                => Last.ret = StoredValue(TeamKeyPath(Last))
           /\ (~Truthy(Last.team_id) /\ Present(OrgKeyPath(Last))
                 /\ \E tm \in Teams : Present(TeamKeyPath([Last EXCEPT !.team_id = tm])))
                => Last.ret = StoredValue(OrgKeyPath(Last))
           /\ (Truthy(Last.team_id) /\ RowsAt(TeamKeyPath(Last)) = {} /\ Present(OrgKeyPath(Last)))
                => Last.ret = StoredValue(OrgKeyPath(Last))

\* C5 witness: both levels hold different credentials and a call with
\* team_id returned the team's.
C5_Witness ==
    /\ Len(hist) > 0 /\ Last.op = "resolve" /\ ~Last.failed /\ Truthy(Last.team_id)
    /\ Present(TeamKeyPath(Last)) /\ Present(OrgKeyPath(Last))
    /\ StoredValue(TeamKeyPath(Last)) # StoredValue(OrgKeyPath(Last))
    /\ Last.ret = StoredValue(TeamKeyPath(Last))

\* C6: with no row at the team level (when a team_id is given) and none at
\* the org level, get_llm_api_key returns the provider's environment setting,
\* which is None when none is configured, and raises nothing.
C6_EnvFallback ==
    (Len(hist) > 0 /\ Last.op = "resolve"
        /\ RowsAt(OrgKeyPath(Last)) = {}
        /\ (Truthy(Last.team_id) => RowsAt(TeamKeyPath(Last)) = {}))
        => (Last.ret = env[Last.provider] /\ ~Last.raised)

\* C6 witness: nothing stored, an environment default configured and returned.
C6_Witness ==
    /\ Len(hist) > 0 /\ Last.op = "resolve" /\ store = {}
    /\ Truthy(env[Last.provider]) /\ Last.ret = env[Last.provider]

\* C7: with the master secret configured, a get of a path whose row does not
\* verify under the derived key returns None, raises nothing and leaves no
\* cache entry; get_llm_api_key with such a row at the team level goes on to
\* the org credential, else to the environment.
C7_UnverifiableRowIsAbsent ==
    (Len(hist) > 0 /\ SECRET_KEY # "")
        => /\ (Last.op = "get" /\ BadRow(ThFullPath(Last)))
                => /\ Last.ret = None
                   /\ ~Last.raised
                   /\ cache[ThCacheKey(Last)] = NoEntry
           /\ (Last.op = "resolve" /\ Truthy(Last.team_id) /\ BadRow(TeamKeyPath(Last))
                 /\ ~Last.failed)
                => /\ ~Last.raised
                   /\ Last.ret = IF Present(OrgKeyPath(Last))
                                 THEN StoredValue(OrgKeyPath(Last))
                                 ELSE env[Last.provider]

\* C7 witness: the team row was sealed under another master secret and the
\* call returned the org credential.
C7_Witness ==
    /\ Len(hist) > 0 /\ SECRET_KEY # "" /\ Last.op = "resolve" /\ Last.bad /\ ~Last.failed
    /\ BadRow(TeamKeyPath(Last)) /\ Present(OrgKeyPath(Last))
    /\ \E x \in RowsAt(TeamKeyPath(Last)) : x.encrypted_value.key # derive_key(SECRET_KEY)
    /\ Last.ret = StoredValue(OrgKeyPath(Last))

\* C8 (as claimed): a store I/O failure during get, set or delete reaches the
\* caller as an error.
C8_IOErrorPropagates ==
    \A i \in 1..Len(hist) :
        (hist[i].failed /\ hist[i].op \in {"get", "set", "delete"}) => hist[i].raised

\* C8 (amended): a store I/O failure during get, set or delete ends the call
\* at once without an error reaching the caller: get returns None, set and
\* delete return False, and the failed statement is not issued again.
C8_IOErrorSwallowed ==
    /\ \A i \in 1..Len(hist) :
         (hist[i].failed /\ hist[i].op \in {"get", "set", "delete"})
            => /\ ~hist[i].raised
               /\ hist[i].op = "get" => hist[i].ret = None
               /\ IsWrite(hist[i]) => (~hist[i].ok /\ ~hist[i].wrote)
    /\ \A t \in Threads :
         (Running(t) /\ th[t].op \in {"get", "set", "delete"}) => ~th[t].failed

\* C8 witness: a set whose store statement failed returned False.
C8_Witness ==
    /\ Len(hist) > 0 /\ Last.op = "set" /\ Last.failed /\ ~Last.ok /\ ~Last.raised

\* C9: when a get has returned None, and before the next call starts, the
\* cache holds no entry for its path; and a
\* set(p, s) made right after a get(p) that found no row is seen by the next
\* get(p), which returns s.
C9_AbsentNotCached ==
    /\ (Len(hist) > 0 /\ Quiet /\ Last.op = "get" /\ Last.ret = None)
         => cache[ThCacheKey(Last)] = NoEntry
    /\ (Len(hist) = 2 /\ Prev.op = "set" /\ Prev.ok /\ Prev.after_absent
          /\ Last.op = "get" /\ SameSecret(Prev, Last) /\ ~Last.failed)
         => Last.ret = Prev.value

\* C9 witness: get found no row, set stored s, get returned s.
C9_Witness ==
    /\ Len(hist) = 2 /\ Prev.op = "set" /\ Prev.ok /\ Prev.after_absent
    /\ Last.op = "get" /\ SameSecret(Prev, Last) /\ ~Last.failed
    /\ Last.ret = Prev.value

\* A cache is what it was, but for entries that expired.
CacheWithin(c, d) == \A k \in CacheKeys : c[k] \in {d[k], NoEntry}

\* C10: in one thread, a delete whose store statements do not fail returns
\* True and leaves no row for its path; on a path without a row it changes
\* neither the table nor the cache; a second delete right after a first
\* changes nothing; and a get right after a successful delete returns None.
C10_DeleteIdempotent ==
    /\ (Len(hist) > 0 /\ Last.op = "delete" /\ ~Last.failed)
         => (Last.ok /\ RowsAt(ThFullPath(Last)) = {})
    /\ (Len(hist) > 0 /\ Quiet /\ Last.op = "delete" /\ Last.ok
          /\ {x \in pre.store : x.path = ThFullPath(Last)} = {})
         => (store = pre.store /\ CacheWithin(cache, pre.cache))
    /\ (Len(hist) = 2 /\ Quiet /\ Prev.op = "delete" /\ Prev.ok /\ Last.op = "delete"
          /\ Last.ok /\ SameSecret(Prev, Last))
         => (store = pre.store /\ CacheWithin(cache, pre.cache))
    /\ (Len(hist) = 2 /\ Prev.op = "delete" /\ Prev.ok /\ Last.op = "get"
          /\ SameSecret(Prev, Last))
         => Last.ret = None

\* C10 witness: a delete removed a row and a second delete of the same path
\* returned True.
C10_Witness ==
    /\ Len(hist) = 2 /\ Quiet /\ Prev.op = "delete" /\ Prev.ok /\ Prev.wrote
    /\ Last.op = "delete" /\ Last.ok /\ SameSecret(Prev, Last)
    /\ store = pre.store

\* The primary keys of the rows a table holds for a full path.
IdsAt(table, fp) == {x.id : x \in SelectByPath(table, fp)}

\* C11: in every state, under any interleaving of calls, the table holds at
\* most one row per path; the commit of a set that returns True leaves, on a
\* path that had a row, that same row (same primary key) holding the new
\* token and, on a path that had none, exactly one row; no other path's rows
\* change.
C11_OneRowPerPath ==
    [][/\ \A fp \in FullPaths :
            Cardinality(RowsAt(fp)) <= 1 /\ Cardinality(SelectByPath(store', fp)) <= 1
       /\ \A t \in Threads :
            (th[t].pc = "set_commit" /\ th'[t].pc = "idle" /\ hist'[Len(hist')].ok)
               => LET fp == ThFullPath(th[t])
                  IN /\ RowsAt(fp) # {} => IdsAt(store', fp) = IdsAt(store, fp)
                     /\ Cardinality(SelectByPath(store', fp)) = 1
                     /\ \A x \in SelectByPath(store', fp) :
                            x.encrypted_value = encrypt_value(fernet, th[t].value)
                     /\ \A other \in FullPaths \ {fp} :
                            SelectByPath(store', other) = SelectByPath(store, other)
      ]_vars

\* C11 witness: two successful sets of one path, with different values, have
\* returned and one row holds the path.
C11_Witness ==
    /\ Len(hist) = 2 /\ Prev.op = "set" /\ Prev.ok /\ Last.op = "set" /\ Last.ok
    /\ SameSecret(Prev, Last) /\ Prev.value # Last.value
    /\ Cardinality(RowsAt(ThFullPath(Last))) = 1

\* ------------------------------------------------ properties: LLM settings
\* The settings call that returned last, and the one before it.
LLast == ehist[Len(ehist)]
LPrev == ehist[Len(ehist) - 1]

\* r is a get_effective_llm_settings call that returned a result.
Effective(r) == r.op = "effective" /\ ~r.raised
Result(r) == CHOOSE x \in r.result : TRUE

\* The stored rows a call r is about: the organization's and the user's row,
\* and the team's row when the call has a team context (else no row).
OrgRowOf(r) ==
    CHOOSE x \in SelectWhere(organization_llm_settings, "organization_id", r.organization_id) :
        TRUE
UserRowOf(r) == CHOOSE x \in SelectWhere(user_llm_settings, "user_id", r.user_id) : TRUE
HasTeam(r) == r.team_id # None
TeamRowOf(r) == CHOOSE x \in SelectWhere(team_llm_settings, "team_id", r.team_id) : TRUE

\* The team row with every override field null.
NoOverrides(ts) ==
    [ts EXCEPT !.default_provider = None, !.default_model = None,
               !.default_temperature = None, !.default_max_tokens = None]

\* The team layer applies: a team context, and the organization allows it.
TeamLayer(r) == HasTeam(r) /\ OrgRowOf(r).allow_team_customization
\* The user layer applied, as the result reports it.
UserLayer(r) == Result(r).can_change_model

\* The first of the user's, the team's and the organization's value that
\* belongs to a layer that applies and is not null.
Pick(r, user_value, team_value, org_value) ==
    IF UserLayer(r) /\ user_value # None THEN user_value
    ELSE IF TeamLayer(r) /\ team_value # None THEN team_value
    ELSE org_value

\* What the team contributes to a field: its value under a team context.
TeamValue(r, field) == IF HasTeam(r) THEN TeamRowOf(r)[field] ELSE None

\* C12: with org.allow_team_customization false, the result has the provider,
\* model, temperature, max_tokens and settings_source that the hierarchy
\* yields when every team override field is null; when also no user override
\* applies, the model is the organization's and settings_source is "org"; the
\* call raises nothing.
C12_PermissionVeto ==
    \A i \in 1..Len(ehist) :
        LET r == ehist[i] IN
        (r.op = "effective" /\ ~OrgRowOf(r).allow_team_customization)
           => /\ ~r.raised
              /\ LET res == Result(r)
                     org == OrgRowOf(r)
                     us == UserRowOf(r)
                     nulled == IF HasTeam(r) THEN {NoOverrides(TeamRowOf(r))} ELSE {}
                     same == resolve_hierarchy(org, nulled, us)
                 IN /\ res.provider = same.provider
                    /\ res.model = same.model
                    /\ res.temperature = same.temperature
                    /\ res.max_tokens = same.max_tokens
                    /\ res.settings_source = same.settings_source
                    /\ res.max_tokens = org.default_max_tokens
                    /\ (~org.allow_user_customization
                          \/ (us.preferred_provider = None /\ us.preferred_model = None))
                         => (res.model = org.default_model /\ res.settings_source = "org")

\* C12 witness: the team stores a model, the organization forbids team
\* customization, and a call with the team context returned the
\* organization's model with settings_source "org".
C12_Witness ==
    /\ Len(ehist) > 0 /\ Effective(LLast) /\ ~LLast.hit /\ HasTeam(LLast)
    /\ ~OrgRowOf(LLast).allow_team_customization
    /\ TeamRowOf(LLast).default_model = "gpt-4o"
    /\ Result(LLast).model = OrgRowOf(LLast).default_model
    /\ Result(LLast).settings_source = "org"

\* C13 (as claimed): the user layer is applied exactly when
\* org.allow_user_customization and (no team context or
\* team.allow_user_customization), whatever org.allow_team_customization is:
\* the result's can_change flags say so, and a preferred model of the user is
\* the result's model exactly then.
C13_UserLayerGate ==
    \A i \in 1..Len(ehist) :
        LET r == ehist[i] IN
        Effective(r)
           => LET gate == /\ OrgRowOf(r).allow_user_customization
                          /\ (~HasTeam(r) \/ TeamRowOf(r).allow_user_customization)
              IN /\ Result(r).can_change_model <=> gate
                 /\ UserRowOf(r).preferred_model # None
                      => (Result(r).model = UserRowOf(r).preferred_model <=> gate)

\* C14: with org.allow_team_customization, org.allow_user_customization and
\* team.allow_user_customization all true, the user's preferred model, when
\* not null, is the result's model and settings_source is "user"; else the
\* team's model, when not null, is; else the organization's.
C14_LayeredOverride ==
    \A i \in 1..Len(ehist) :
        LET r == ehist[i] IN
        (Effective(r) /\ HasTeam(r)
           /\ OrgRowOf(r).allow_team_customization /\ OrgRowOf(r).allow_user_customization
           /\ TeamRowOf(r).allow_user_customization)
           => LET res == Result(r)
                  ts == TeamRowOf(r)
                  us == UserRowOf(r)
              IN /\ us.preferred_model # None
                      => (res.model = us.preferred_model /\ res.settings_source = "user")
                 /\ (us.preferred_model = None /\ ts.default_model # None)
                      => res.model = ts.default_model
                 /\ (us.preferred_model = None /\ ts.default_model = None)
                      => res.model = OrgRowOf(r).default_model

\* C14 witness: team model "gpt-4o", user model "gemini-2.5-pro", all flags
\* true: the result has the user's model and settings_source "user".
C14_Witness ==
    /\ Len(ehist) > 0 /\ Effective(LLast) /\ ~LLast.hit /\ HasTeam(LLast)
    /\ OrgRowOf(LLast).allow_team_customization /\ OrgRowOf(LLast).allow_user_customization
    /\ TeamRowOf(LLast).allow_user_customization
    /\ TeamRowOf(LLast).default_model = "gpt-4o"
    /\ UserRowOf(LLast).preferred_model = "gemini-2.5-pro"
    /\ Result(LLast).model = "gemini-2.5-pro"
    /\ Result(LLast).settings_source = "user"

\* C15: each of provider, model, temperature and max_tokens is, on its own,
\* the value of the most specific applying layer that sets it (a null leaves
\* the value of the layer above); top_p, fallback_enabled and fallback_models
\* are the organization row's.
C15_PerFieldInheritance ==
    \A i \in 1..Len(ehist) :
        LET r == ehist[i] IN
        Effective(r)
           => LET res == Result(r)
                  org == OrgRowOf(r)
                  us == UserRowOf(r)
              IN /\ res.provider = Pick(r, us.preferred_provider,
                                        TeamValue(r, "default_provider"), org.default_provider)
                 /\ res.model = Pick(r, us.preferred_model,
                                     TeamValue(r, "default_model"), org.default_model)
                 /\ res.temperature = Pick(r, us.preferred_temperature,
                                           TeamValue(r, "default_temperature"),
                                           org.default_temperature)
                 /\ res.max_tokens = Pick(r, None, TeamValue(r, "default_max_tokens"),
                                          org.default_max_tokens)
                 /\ res.top_p = org.default_top_p
                 /\ res.fallback_enabled = org.fallback_enabled
                 /\ res.fallback_models = org.fallback_models

\* C15 witness: the team row sets only its model, the team layer applies and
\* no user temperature is set: the result has the team's model and the
\* organization's temperature, which is not the default one.
C15_Witness ==
    /\ Len(ehist) > 0 /\ Effective(LLast) /\ ~LLast.hit /\ TeamLayer(LLast)
    /\ TeamRowOf(LLast).default_model = "gpt-4o"
    /\ TeamRowOf(LLast).default_provider = None
    /\ TeamRowOf(LLast).default_temperature = None
    /\ TeamRowOf(LLast).default_max_tokens = None
    /\ UserRowOf(LLast).preferred_temperature = None
    /\ OrgRowOf(LLast).default_temperature = "0.2"
    /\ Result(LLast).model = "gpt-4o"
    /\ Result(LLast).temperature = "0.2"

\* C16: settings_source is "user" iff the user layer applied and the user's
\* provider or model is not null; otherwise "team" iff the team layer applied
\* and the team's provider or model is not null; otherwise "org".
C16_ProvenanceTag ==
    \A i \in 1..Len(ehist) :
        LET r == ehist[i] IN
        Effective(r)
           => LET us == UserRowOf(r)
                  by_user == /\ UserLayer(r)
                             /\ (us.preferred_provider # None \/ us.preferred_model # None)
                  by_team == /\ TeamLayer(r)
                             /\ \/ TeamRowOf(r).default_provider # None
                                \/ TeamRowOf(r).default_model # None
              IN Result(r).settings_source =
                    IF by_user THEN "user" ELSE IF by_team THEN "team" ELSE "org"

\* C16 witness: the team overrides temperature and max_tokens only and the
\* user the temperature only; both layers applied and settings_source is
\* "org".
C16_Witness ==
    /\ Len(ehist) > 0 /\ Effective(LLast) /\ ~LLast.hit
    /\ TeamLayer(LLast) /\ UserLayer(LLast)
    /\ TeamRowOf(LLast).default_provider = None /\ TeamRowOf(LLast).default_model = None
    /\ TeamRowOf(LLast).default_temperature = "0.5"
    /\ TeamRowOf(LLast).default_max_tokens = "2048"
    /\ UserRowOf(LLast).preferred_provider = None /\ UserRowOf(LLast).preferred_model = None
    /\ UserRowOf(LLast).preferred_temperature = "1.0"
    /\ Result(LLast).temperature = "1.0" /\ Result(LLast).max_tokens = "2048"
    /\ Result(LLast).settings_source = "org"

\* The value the team and organization layers alone give a field.
PickBelowUser(r, team_value, org_value) ==
    IF TeamLayer(r) /\ team_value # None THEN team_value ELSE org_value

AvailableIds(r) == {Result(r).available_models[i].id : i \in DOMAIN Result(r).available_models}

\* The ids of the built-in models of the providers the organization enables.
EnabledBuiltInIds(r) ==
    UNION {Elems(BUILT_IN_MODELS[p]) :
             p \in Elems(OrgRowOf(r).enabled_providers) \cap DOMAIN BUILT_IN_MODELS}

\* The enabled custom providers in the scope of a call: the organization's,
\* narrowed under a team context to the organization-level ones and the
\* team's.
CustomProvidersInScope(r) ==
    {cp \in custom_llm_provider :
        /\ cp.organization_id = r.organization_id
        /\ cp.is_enabled
        /\ HasTeam(r) => cp.team_id \in {None, r.team_id}}

\* The ids of their model entries; an entry without an id counts as "".
CustomEntryIds(r) ==
    UNION {{dict_get(cp.available_models[i], "id", "") : i \in DOMAIN cp.available_models} :
             cp \in CustomProvidersInScope(r)}

\* The union of the organization's disabled ids and, under a team context,
\* the team's.
DisabledUnion(r) ==
    Elems(OrgRowOf(r).disabled_models)
        \cup (IF HasTeam(r) THEN Elems(TeamRowOf(r).disabled_models) ELSE {})

\* C18 (as claimed): the available models are exactly the built-in models of
\* the enabled providers plus every model entry of the enabled custom
\* providers in scope, minus the disabled union.
C18_AvailableModelsExact ==
    \A i \in 1..Len(ehist) :
        LET r == ehist[i] IN
        Effective(r)
           => AvailableIds(r) = (EnabledBuiltInIds(r) \cup CustomEntryIds(r)) \ DisabledUnion(r)

\* C18 (amended): the available models are exactly the built-in models of the
\* enabled providers plus the model entries with a non-empty id of the
\* enabled custom providers in scope, minus the disabled union, whether or
\* not the organization allows team customization; no listed model has an id
\* in the union.
C18_AvailableModels ==
    \A i \in 1..Len(ehist) :
        LET r == ehist[i] IN
        Effective(r)
           => /\ AvailableIds(r) =
                    (EnabledBuiltInIds(r) \cup (CustomEntryIds(r) \ {""})) \ DisabledUnion(r)
              /\ AvailableIds(r) \cap DisabledUnion(r) = {}

\* C18 witness: the organization forbids team customization, the team
\* disables "gpt-4o", a custom provider lists "llama3" and an entry without
\* an id: the result lists "llama3" and "gpt-4o-mini" and not "gpt-4o".
C18_Witness ==
    /\ Len(ehist) > 0 /\ Effective(LLast) /\ ~LLast.hit /\ HasTeam(LLast)
    /\ ~OrgRowOf(LLast).allow_team_customization
    /\ "gpt-4o" \in Elems(TeamRowOf(LLast).disabled_models)
    /\ "gpt-4o" \notin Elems(OrgRowOf(LLast).disabled_models)
    /\ "" \in CustomEntryIds(LLast)
    /\ {"llama3", "gpt-4o-mini"} \subseteq AvailableIds(LLast)
    /\ "gpt-4o" \notin AvailableIds(LLast)

\* No request thread is inside a settings call.
LQuiet == \A t \in Threads : rq[t].pc = "idle"

\* What get_effective_llm_settings computes from the rows the tables hold now
\* for the arguments of the call r.
Fresh(r) ==
    LET org == OrgRowOf(r)
        team_settings == IF HasTeam(r) THEN {TeamRowOf(r)} ELSE {}
        rows == list_custom_providers(custom_llm_provider, r.organization_id, r.team_id)
    IN EffectiveLLMSettings(org, team_settings, UserRowOf(r),
                            get_available_models(org, team_settings,
                                                 CHOOSE l \in Lists(rows) : TRUE),
                            rows)

\* C19 (as claimed): one thread; the result a get_effective_llm_settings call
\* returned is the one computed from the rows as they are at its return, so
\* also when a row was updated since an earlier call with the same arguments.
C19_NeverMemoised ==
    (Len(ehist) > 0 /\ LQuiet /\ Effective(LLast)) => Result(LLast) = Fresh(LLast)

\* C19 (amended): one thread; a stored result is only ever returned to a
\* later call of the same request with the same arguments (never across
\* requests, never for other arguments), and it is a result that an earlier
\* such call of the request computed, whatever was updated in between; every
\* other call computes its result from the rows as they are.
C19_MemoisedPerRequest ==
    (Len(ehist) > 0 /\ Effective(LLast))
       => /\ LLast.hit => LLast.repeat
          /\ (~LLast.hit /\ LQuiet) => Result(LLast) = Fresh(LLast)
          /\ \A t \in SeqThreads :
               LET earlier == rq[t].seen[<<LLast.user_id, LLast.organization_id, LLast.team_id>>]
               IN (LLast.hit /\ earlier # {}) => LLast.result \subseteq earlier

\* C19 witness: the team's model was updated between two calls of one request
\* with the same arguments, and the second call returned the first result,
\* which is not what the rows give now.
C19_Witness ==
    /\ Len(ehist) = 2 /\ LQuiet /\ Effective(LLast) /\ LLast.repeat /\ LLast.hit
    /\ LPrev.op = "update_team" /\ HasTeam(LLast)
    /\ Result(LLast) # Fresh(LLast)
    /\ Fresh(LLast).model = "gpt-4o"

\* The rows of the three settings tables for one organization, team or user.
OrgRows(table, o) == SelectWhere(table, "organization_id", o)
TeamRows(table, tm) == SelectWhere(table, "team_id", tm)
UserRows(table, u) == SelectWhere(table, "user_id", u)

\* The hard-coded defaults of a lazily created row.
HoldsOrgDefaults(x) ==
    /\ x.default_provider = "anthropic" /\ x.default_temperature = "0.7"
    /\ x.allow_team_customization /\ x.allow_user_customization
    /\ x.allow_per_request_model_selection
HoldsTeamDefaults(x) ==
    /\ x.default_provider = None /\ x.default_model = None
    /\ x.default_temperature = None /\ x.default_max_tokens = None
    /\ x.allow_user_customization
HoldsUserDefaults(x) ==
    x.preferred_provider = None /\ x.preferred_model = None /\ x.preferred_temperature = None

\* At most one row per organization, team and user at any time, and exactly
\* one once a call that loads the row has returned.
OneSettingsRow ==
    /\ \A o \in Orgs : Cardinality(OrgRows(organization_llm_settings, o)) <= 1
    /\ \A tm \in Teams : Cardinality(TeamRows(team_llm_settings, tm)) <= 1
    /\ \A u \in Users : Cardinality(UserRows(user_llm_settings, u)) <= 1
    /\ \A i \in 1..Len(ehist) :
         LET r == ehist[i]
         IN /\ r.organization_id # None
                 => Cardinality(OrgRows(organization_llm_settings, r.organization_id)) = 1
            /\ (r.team_id # None /\ ~r.raised)
                 => Cardinality(TeamRows(team_llm_settings, r.team_id)) = 1
            /\ (r.user_id # None /\ ~r.raised)
                 => Cardinality(UserRows(user_llm_settings, r.user_id)) = 1

\* One step: unless it is the commit of an update call, every stored row
\* stays as it is and a row that appears holds the defaults.
RowsKeptAndDefaults ==
    /\ \/ \E t \in Threads : rq[t].pc = "org_update" /\ rq'[t].pc = "idle"
       \/ /\ organization_llm_settings \subseteq organization_llm_settings'
          /\ \A x \in organization_llm_settings' \ organization_llm_settings :
                 HoldsOrgDefaults(x)
    /\ \/ \E t \in Threads : rq[t].pc = "team_update" /\ rq'[t].pc = "idle"
       \/ /\ team_llm_settings \subseteq team_llm_settings'
          /\ \A x \in team_llm_settings' \ team_llm_settings : HoldsTeamDefaults(x)
    /\ \/ \E t \in Threads : rq[t].pc = "user_update" /\ rq'[t].pc = "idle"
       \/ /\ user_llm_settings \subseteq user_llm_settings'
          /\ \A x \in user_llm_settings' \ user_llm_settings : HoldsUserDefaults(x)

\* r computed a result under a team context from a team row and a user row
\* that hold the defaults.
OverDefaultRows(r) ==
    /\ Effective(r) /\ ~r.hit /\ HasTeam(r)
    /\ \A x \in r.team_settings : HoldsTeamDefaults(x)
    /\ \A x \in r.user_settings : HoldsUserDefaults(x)

\* The result of r is the organization row's provider, model and temperature,
\* tagged "org".
OrgValues(r) ==
    \A org \in r.org_settings :
        /\ Result(r).provider = org.default_provider
        /\ Result(r).model = org.default_model
        /\ Result(r).temperature = org.default_temperature
        /\ Result(r).settings_source = "org"

\* Every returned call over default team and user rows gave the
\* organization's values with can_change_model true.
LazyRowsCanChange ==
    \A i \in 1..Len(ehist) :
        OverDefaultRows(ehist[i]) => OrgValues(ehist[i]) /\ Result(ehist[i]).can_change_model
\* C20 (as claimed): at most one settings row per organization, team and
\* user, exactly one after an access; a lazily created row holds the
\* defaults; only an update call changes a stored row; and over team and user
\* rows that hold the defaults the result is the organization's provider,
\* model and temperature, tagged "org", with can_change_model true.
C20_LazyRowsCanChange ==
    [][/\ OneSettingsRow /\ OneSettingsRow'
       /\ RowsKeptAndDefaults
       /\ LazyRowsCanChange /\ LazyRowsCanChange'
      ]_vars

\* The same with can_change_model as the organization row allows.
LazyRows ==
    \A i \in 1..Len(ehist) :
        OverDefaultRows(ehist[i])
           => /\ OrgValues(ehist[i])
              /\ \A org \in ehist[i].org_settings :
                     /\ Result(ehist[i]).can_change_model = org.allow_user_customization
                     /\ HoldsOrgDefaults(org) => Result(ehist[i]).can_change_model
\* C20 (amended): the same, but can_change_model is the organization row's
\* allow_user_customization (true for a lazily created organization row).
C20_LazyRows ==
    [][/\ OneSettingsRow /\ OneSettingsRow'
       /\ RowsKeptAndDefaults
       /\ LazyRows /\ LazyRows'
      ]_vars

\* C20 witness: a call that found no team and no user row created both and
\* returned the values of an organization row that had been updated to forbid
\* user customization, with can_change_model false; one row each is stored.
C20_Witness ==
    /\ Len(ehist) > 0 /\ OverDefaultRows(LLast)
    /\ {"team", "user"} \subseteq LLast.created
    /\ \E org \in LLast.org_settings : ~org.allow_user_customization
    /\ ~Result(LLast).can_change_model
    /\ OrgValues(LLast)
    /\ OneSettingsRow

\* C21 (as claimed): with concurrent request threads, no settings call ends
\* in an error, a get-or-create or get_effective_llm_settings call that
\* inserted the organization row has the defaults, and there is never more
\* than one row per organization, team and user.
C21_ConcurrentFirstAccessSafe ==
    /\ \A i \in 1..Len(ehist) :
         /\ ~ehist[i].raised
         /\ ("org" \in ehist[i].created /\ ehist[i].op \in {"get_or_create_org", "effective"})
               => \A x \in ehist[i].org_settings : HoldsOrgDefaults(x)
    /\ \A o \in Orgs : Cardinality(OrgRows(organization_llm_settings, o)) <= 1
    /\ \A tm \in Teams : Cardinality(TeamRows(team_llm_settings, tm)) <= 1
    /\ \A u \in Users : Cardinality(UserRows(user_llm_settings, u)) <= 1

\* C22 (as claimed): with no master secret configured, a get, set or delete
\* in which the cipher initialization failed ends in an error that reaches
\* the caller, and no cipher instance is cached.
C22_MissingKeySurfaced ==
    /\ \A i \in 1..Len(hist) :
         (hist[i].cfgerr /\ hist[i].op \in {"get", "set", "delete"}) => hist[i].raised
    /\ SECRET_KEY = "" => fernet = None

\* C23 (as claimed): under concurrent first calls of get_fernet the key is
\* derived and _fernet assigned at most once, and a call that starts once
\* _fernet is set returns that one object without deriving.
C23_InitializedOnce ==
    /\ kdf_calls <= 1
    /\ \A t \in Threads :
         (fc[t].pc = "idle" /\ fc[t].after_init)
            => fc[t].ret = 1 /\ ~fc[t].derived /\ ~fc[t].raised

\* The three existence facts behind a status entry of the call r: a truthy
\* credential stored for the provider at the team's path, at the
\* organization's path, and a truthy environment default.
TeamKeyPresent(r, provider) ==
    /\ Truthy(r.team_id)
    /\ Present(full_path(api_key_name(provider), _get_secret_path(r.org_id, r.team_id)))
OrgKeyPresent(r, provider) ==
    Present(full_path(api_key_name(provider), _get_secret_path(r.org_id, None)))
EnvKeyPresent(provider) == Truthy(env[provider])

\* The most specific level that is present, None when none is.
LevelOf(team, org, environment) ==
    IF team THEN "team" ELSE IF org THEN "org" ELSE IF environment THEN "environment" ELSE None

\* C24: list_api_key_status whose store reads do not fail returns one entry
\* per supported provider, in order; in each, has_team_override,
\* has_org_key and has_env_fallback are the three existence facts, each on
\* its own; is_configured is their disjunction and level the most specific
\* one that holds (None when none).
C24_StatusEntries ==
    (Len(hist) > 0 /\ Last.op = "list_status" /\ ~Last.failed)
        => /\ Len(Last.entries) = Len(SUPPORTED_PROVIDERS)
           /\ \A i \in 1..Len(Last.entries) :
                LET e == Last.entries[i]
                    p == SUPPORTED_PROVIDERS[i]
                IN /\ e.provider = p
                   /\ e.has_team_override = TeamKeyPresent(Last, p)
                   /\ e.has_org_key = OrgKeyPresent(Last, p)
                   /\ e.has_env_fallback = EnvKeyPresent(p)
                   /\ e.is_configured =
                        (e.has_team_override \/ e.has_org_key \/ e.has_env_fallback)
                   /\ e.level = LevelOf(e.has_team_override, e.has_org_key, e.has_env_fallback)

\* C24 witness: a listing with a team context returned an entry with a team
\* override, an organization key and an environment default, at level
\* "team", next to an entry with nothing configured.
C24_Witness ==
    /\ Len(hist) > 0 /\ Last.op = "list_status" /\ ~Last.failed /\ Truthy(Last.team_id)
    /\ \E i \in 1..Len(Last.entries) :
         LET e == Last.entries[i]
         IN e.has_team_override /\ e.has_org_key /\ e.has_env_fallback /\ e.level = "team"
    /\ \E i \in 1..Len(Last.entries) : ~Last.entries[i].is_configured

\* The path and the cache key that set_llm_api_key / delete_llm_api_key of
\* the call r are to act on: the team's when a team is given, else the
\* organization's.
TargetScope(r) ==
    IF Truthy(r.team_id) THEN "/organizations/" \o r.org_id \o "/teams/" \o r.team_id
    ELSE "/organizations/" \o r.org_id
TargetPath(r) == TargetScope(r) \o "/" \o r.provider \o "_api_key"
TargetKey(r) == "secret:" \o TargetScope(r) \o ":" \o r.provider \o "_api_key"

\* What a get of the secret returns from a table and a cache when its reads
\* do not fail: the cached value, else the stored one.
GetValue(table, c, n, p) ==
    IF c[_get_cache_key(n, p)] # NoEntry THEN c[_get_cache_key(n, p)]
    ELSE LET rows == SelectByPath(table, full_path(n, p))
         IN IF rows = {} THEN None
            ELSE LET tok == (CHOOSE x \in rows : TRUE).encrypted_value
                 IN IF Verifies(tok) THEN tok.pt ELSE None

\* C25: every step of a set or delete call leaves the rows, the cache entry
\* and the get result of every path but its own as they are; its first step
\* evicts its own cache entry, and a successful set leaves its value in the
\* row of its own path.
C25_OnlyOwnScope ==
    [][\A t \in Threads :
         (IsWrite(th[t]) /\ Running(t) /\ th'[t] # th[t])
            => LET r == th[t]
               IN /\ \A fp \in FullPaths \ {TargetPath(r)} :
                       SelectByPath(store', fp) = SelectByPath(store, fp)
                  /\ \A k \in CacheKeys \ {TargetKey(r)} : cache'[k] = cache[k]
                  /\ \A n \in ApiKeyNames, p \in ScopePaths :
                       full_path(n, p) # TargetPath(r)
                          => GetValue(store', cache', n, p) = GetValue(store, cache, n, p)
                  /\ r.pc \in {"set_evict", "del_evict"} => cache'[TargetKey(r)] = NoEntry
                  /\ (r.pc = "set_commit" /\ th'[t].pc = "idle" /\ hist'[Len(hist')].ok)
                       => \E x \in SelectByPath(store', TargetPath(r)) :
                              x.encrypted_value.pt = r.value
      ]_vars

\* C25 witness: a set with a team returned success while the organization's
\* path holds a row and a cache entry, and the team's path holds the value.
C25_Witness ==
    /\ Len(hist) > 0 /\ Last.op = "set" /\ Last.ok /\ Truthy(Last.team_id)
    /\ \E x \in RowsAt(TargetPath(Last)) : x.encrypted_value.pt = Last.value
    /\ RowsAt(OrgKeyPath(Last)) # {}
    /\ cache[_get_cache_key(api_key_name(Last.provider), _get_secret_path(Last.org_id, None))]
          # NoEntry

\* C26: a get that finds its cache entry before the entry's expiry time
\* (the time it was cached plus SECRETS_CACHE_TTL_SECONDS) returns the cached
\* value at once, without a SELECT; a get that finds it after that time
\* misses, drops the entry and goes on to the SELECT; and a get that reads a
\* row that decrypts returns the stored value and caches it for another
\* SECRETS_CACHE_TTL_SECONDS.
C26_TTLBehaviour ==
    [][\A t \in Threads :
         (th[t].op = "get" /\ th'[t] # th[t])
            => LET r == th[t]
                   k == ThCacheKey(r)
                   returned == hist'[Len(hist')]
               IN /\ (r.pc = "get_cache" /\ cache[k] # NoEntry /\ now < expires_at[k])
                       => /\ th'[t].pc = "idle"
                          /\ returned.hit /\ returned.ret = cache[k]
                          /\ cache' = cache /\ expires_at' = expires_at
                  /\ (r.pc = "get_cache" /\ cache[k] # NoEntry /\ now > expires_at[k])
                       => /\ th'[t].pc = "get_select"
                          /\ cache'[k] = NoEntry
                  /\ (r.pc = "get_select" /\ th'[t].pc = "get_decrypt")
                       => th'[t].existing = SelectByPath(store, ThFullPath(r))
                  /\ r.pc = "get_decrypt"
                       => \A x \in SelectByPath(store, ThFullPath(r)) :
                            LET stored == decrypt_value(derive_key(SECRET_KEY), x.encrypted_value)
                            IN stored # InvalidToken
                                  => /\ th'[t].pc = "idle"
                                     /\ ~returned.hit /\ returned.ret = stored
                                     /\ cache'[k] = stored
                                     /\ expires_at'[k] = now + SECRETS_CACHE_TTL_SECONDS
      ]_vars

\* C26 witness: a get was answered from the cache while its entry was
\* fresh, and after the entry's expiry time the next get of the same secret
\* missed, read the same value from the store and cached it again.
C26_Witness ==
    /\ Len(hist) = 2 /\ Prev.op = "get" /\ Last.op = "get"
    /\ Prev.secret_name = Last.secret_name /\ Prev.path = Last.path
    /\ Prev.hit /\ ~Last.hit /\ ~Last.failed
    /\ Truthy(Last.ret) /\ Last.ret = Prev.ret
    /\ cache[ThCacheKey(Last)] = Last.ret
    /\ now > SECRETS_CACHE_TTL_SECONDS
    /\ expires_at[ThCacheKey(Last)] > 2 * SECRETS_CACHE_TTL_SECONDS

\* C27: a get_chat_model_with_context call for a user uses, and
\* get_model_for_chat returns, the effective provider, model and temperature
\* whatever the override arguments are when the organization does not allow
\* per-request model selection; when it allows it, each override that is not
\* None replaces the effective value.
C27_OverridesGated ==
    \A i \in 1..Len(ehist) :
        (ehist[i].op = "chat" /\ ~ehist[i].raised)
           => LET r == ehist[i]
                  effective == CHOOSE x \in r.result : TRUE
                  Gated(v) ==
                      /\ v.provider = IF effective.per_request_selection_allowed
                                         /\ r.provider_override # None
                                      THEN r.provider_override ELSE effective.provider
                      /\ v.model = IF effective.per_request_selection_allowed
                                      /\ r.model_override # None
                                   THEN r.model_override ELSE effective.model
                      /\ v.temperature = IF effective.per_request_selection_allowed
                                            /\ r.temperature_override # None
                                         THEN r.temperature_override
                                         ELSE effective.temperature
              IN Gated(r.chosen) /\ Gated(r.used)

\* C28: a set that fails (in the encryption, in a store read or write, or on
\* a conflicting row) returns False with the table as it was when the set
\* started and nothing cached for its path; the get of the same secret that
\* follows is a cache miss and returns what that unchanged row holds (None
\* without a row, and None when its own read fails), never the value the
\* failed set was given unless the row already held it.
C28_FailedSetKeepsSecret ==
    [][\A t \in SeqThreads :
         (Running(t) /\ th'[t].pc = "idle")
            => LET r == th[t]
                   returned == hist'[Len(hist')]
                   fp == ThFullPath(r)
               IN /\ (r.op = "set"
                         /\ (returned.failed \/ returned.cfgerr \/ returned.conflict))
                       => /\ ~returned.ok /\ ~returned.raised
                          /\ store' = pre.store
                          /\ cache'[ThCacheKey(r)] = NoEntry
                  /\ (r.op = "get" /\ Len(hist) > 0 /\ Last.op = "set" /\ ~Last.ok
                         /\ SameSecret(Last, r))
                       => /\ store' = pre.store
                          /\ ~returned.hit
                          /\ returned.ret \in {StoredValue(fp), None}
                          /\ (~returned.failed /\ ~returned.cfgerr)
                                => returned.ret = StoredValue(fp)
                          /\ StoredValue(fp) # Last.value => returned.ret # Last.value
      ]_vars

\* C28 witness: a set of a new value failed, and the get that followed
\* returned the value the row held before, which is still there.
C28_Witness ==
    /\ Len(hist) = 2 /\ Prev.op = "set" /\ ~Prev.ok /\ Prev.failed
    /\ Last.op = "get" /\ SameSecret(Prev, Last) /\ ~Last.failed
    /\ Truthy(Last.ret) /\ Last.ret # Prev.value
    /\ StoredValue(ThFullPath(Last)) = Last.ret

\* C29: get_llm_api_key treats an empty string stored at the team or the
\* organization level as no credential there and goes on to the next level:
\* with "" at the team level it returns the organization's credential when
\* there is a non-empty one and the environment setting otherwise, with ""
\* at the organization level (and nothing non-empty at the team level) it
\* returns the environment setting; an empty string it returns is the
\* environment setting.
C29_EmptyIsAbsent ==
    (Len(hist) > 0 /\ Last.op = "resolve" /\ ~Last.failed)
        => /\ (Truthy(Last.team_id) /\ StoredValue(TeamKeyPath(Last)) = "")
                => Last.ret = IF Present(OrgKeyPath(Last)) THEN StoredValue(OrgKeyPath(Last))
                              ELSE env[Last.provider]
           /\ (StoredValue(OrgKeyPath(Last)) = ""
                 /\ (Truthy(Last.team_id) => ~Present(TeamKeyPath(Last))))
                => Last.ret = env[Last.provider]
           /\ Last.ret = "" => env[Last.provider] = ""

\* C29 witness: the team level holds the empty string, the organization a
\* credential, and a call with team_id returned the organization's.
C29_Witness ==
    /\ Len(hist) > 0 /\ Last.op = "resolve" /\ ~Last.failed /\ Truthy(Last.team_id)
    /\ StoredValue(TeamKeyPath(Last)) = ""
    /\ \E x \in RowsAt(TeamKeyPath(Last)) : Verifies(x.encrypted_value)
    /\ Present(OrgKeyPath(Last))
    /\ Last.ret = StoredValue(OrgKeyPath(Last))

\* The status entry of a provider in the result of list_api_key_status.
EntryOf(r, provider) ==
    r.entries[CHOOSE i \in 1..Len(r.entries) : r.entries[i].provider = provider]

\* C30: when list_api_key_status and get_llm_api_key run one after the other
\* (in either order) for the same organization and team and their store
\* reads do not fail, the status entry of the provider has is_configured
\* exactly when get_llm_api_key returned a non-empty credential, and its
\* level is the level that credential was taken from: the team's row, else
\* the organization's row, else the environment setting.
C30_StatusAgreesWithResolver ==
    (Len(hist) = 2 /\ {Prev.op, Last.op} = {"list_status", "resolve"}
        /\ ~Prev.failed /\ ~Last.failed
        /\ Prev.org_id = Last.org_id /\ Prev.team_id = Last.team_id)
        => LET status == IF Prev.op = "list_status" THEN Prev ELSE Last
               resolved == IF Prev.op = "resolve" THEN Prev ELSE Last
               e == EntryOf(status, resolved.provider)
           IN /\ e.is_configured <=> Truthy(resolved.ret)
              /\ e.is_configured <=> (e.level # None)
              /\ e.level = "team"
                    => /\ Truthy(resolved.team_id)
                       /\ resolved.ret = StoredValue(TeamKeyPath(resolved))
              /\ e.level = "org"
                    => /\ ~TeamKeyPresent(resolved, resolved.provider)
                       /\ resolved.ret = StoredValue(OrgKeyPath(resolved))
              /\ e.level = "environment"
                    => /\ ~TeamKeyPresent(resolved, resolved.provider)
                       /\ ~OrgKeyPresent(resolved, resolved.provider)
                       /\ resolved.ret = env[resolved.provider]

\* C30 witness: with an empty string at the team level and a credential at
\* the organization level, the status call reported level "org" and
\* get_llm_api_key for the same team returned the organization's credential.
C30_Witness ==
    /\ Len(hist) = 2 /\ Prev.op = "list_status" /\ Last.op = "resolve"
    /\ ~Prev.failed /\ ~Last.failed
    /\ Prev.org_id = Last.org_id /\ Prev.team_id = Last.team_id /\ Truthy(Last.team_id)
    /\ StoredValue(TeamKeyPath(Last)) = ""
    /\ \E x \in RowsAt(TeamKeyPath(Last)) : Verifies(x.encrypted_value)
    /\ EntryOf(Prev, Last.provider).level = "org"
    /\ Last.ret = StoredValue(OrgKeyPath(Last)) /\ Truthy(Last.ret)

====
